---- MODULE Spec2Model ----
(***************************************************************************)
(* State-machine model of the chat gateway: the rotating refresh-token     *)
(* session manager (modules/auth/service, lib/tokens), the access-token    *)
(* check of the socket handshake and of REST routes, and the websocket     *)
(* message pipeline (modules/ws/server.ts) with the REST message route.    *)
(*                                                                         *)
(* Time is a discrete clock `now`; the configured durations are scaled to  *)
(* one or two ticks.  Random values (UUIDs, refresh secrets) are drawn     *)
(* fresh from a counter.                                                   *)
(***************************************************************************)
EXTENDS Integers, Sequences, FiniteSets, TLC

VARIABLES
  now,              \* Date.now() / NOW(), in ticks
  jwtSecrets,       \* config.jwt.{accessSecret, refreshSecret}
  refresh_tokens,   \* table refresh_tokens, rows in insertion order (row id = index)
  randSeq,          \* number of random values drawn (session ids, refresh secrets)
  issued,           \* credentials handed to clients by login / refresh replies
  authReply,        \* the reply of the last auth HTTP request
  rot,              \* in-flight POST /v1/auth/refresh requests (stepwise handler)
  gw,               \* the gateway's sockets, in-process maps and Redis keys, and
                    \* the events the handler running last emitted
  message_envelopes,\* table message_envelopes, rows in insertion order (id = index)
  message_receipts, \* table message_receipts, a set of rows
  rest,             \* in-flight POST /v1/chats/:chatId/messages requests
  lastOp,           \* the socket request handled last and its outcome
  sendLog,          \* history: per user, the times of the sends counted by the quota
  nonceUse,         \* history: (user, nonce) -> time the replay guard was last set
  sends,            \* history: the number of chat:send requests handled
  messages,         \* chat client: the message list of the page (UiMessage[])
  outbox,           \* chat client: client message ids queued while offline
  uplink,           \* chat client: chat:send events emitted, not yet handled
  wire,             \* events the gateway sent to the chat client, not yet handled
  stored,           \* history: client message id -> message id the gateway assigned
  device_keys,      \* table device_keys, rows in insertion order (id = index)
  keyReq,           \* in-flight GET /v1/devices/keys/:userId requests (one transaction each)
  keyUploads        \* history: the number of key bundles registered

authVars == <<jwtSecrets, refresh_tokens, randSeq, issued, authReply, rot>>
chatVars == <<gw, message_envelopes, message_receipts, rest, lastOp, sendLog, nonceUse, sends>>
clientVars == <<messages, outbox, uplink, wire, stored>>
deviceVars == <<device_keys, keyReq, keyUploads>>

-----------------------------------------------------------------------------
(* Bounds of the model *)

\* the clock stops advancing here
MaxTime == 2
\* at most this many rows are ever inserted into refresh_tokens
MaxRows == 3
\* POST /v1/auth/refresh requests handled step by step (each slot serves one)
MaxRotReq == 2

(* Configuration (config.ts), durations scaled to ticks *)

AccessTtl == 1
RefreshTtl == 2

\* values the two JWT secrets may be configured to (they may coincide)
SecretValues == {"ka", "kb"}

\* rows of table users: id -> username / password (init.sql seeds one; more are
\* created outside the gateway)
Users == {1, 2}
Username(u) == IF u = 1 THEN "admin" ELSE "bob"
Password(u) == IF u = 1 THEN "admin12345" ELSE "bobsecret"
Usernames == {"admin", "bob", "nobody"}
Passwords == {"admin12345", "bobsecret"}

-----------------------------------------------------------------------------
(* Tokens.  A JWT is the three dot-separated parts header.payload.signature; *)
(* a compound refresh token is `${jwt}.${secret}`, four parts.  A token is   *)
(* modelled as the sequence of its parts, so that split / pop / join act on  *)
(* it as on the string.  The signature part names the key it was made with   *)
(* and the claims it covers: it verifies only against that key and that      *)
(* payload.                                                                  *)

Part(kind, u, s, t, e, v) ==
  [kind |-> kind, userId |-> u, sessionId |-> s, tokenType |-> t, exp |-> e, val |-> v]

HeaderPart == Part("hdr", 0, 0, "", 0, "")
PayloadPart(u, s, t, e) == Part("payload", u, s, t, e, "")
SigPart(p, key) == Part("sig", p.userId, p.sessionId, p.tokenType, p.exp, key)
SecretPart(n) == Part("secret", 0, 0, "", 0, ToString(n))

\* fastify.jwt.sign(payload, {expiresIn, secret})
JwtSign(u, s, t, ttl, key) ==
  LET p == PayloadPart(u, s, t, now + ttl) IN <<HeaderPart, p, SigPart(p, key)>>

\* fastify.jwt.verify(token, {secret}): the payload, or "throws"
JwtVerifies(tok, key) ==
  /\ Len(tok) = 3
  /\ tok[1] = HeaderPart
  /\ tok[2].kind = "payload"
  /\ tok[3] = SigPart(tok[2], key)
  /\ now < tok[2].exp

signAccessToken(u, s) == JwtSign(u, s, "access", AccessTtl, jwtSecrets.access)
signRefreshToken(u, s) == JwtSign(u, s, "refresh", RefreshTtl, jwtSecrets.refresh)
verifyRefreshJwt(tok) == JwtVerifies(tok, jwtSecrets.refresh)

\* crypto.randomUUID() and crypto.randomBytes(48): fresh values
newSessionIdStale == IF randSeq = 0 THEN randSeq + 1 ELSE randSeq
newSessionId == randSeq + 1
newRefreshToken == SecretPart(randSeq + 1)

\* bcrypt.hash / bcrypt.compare
hashRefreshToken(secret) == [bcrypt |-> secret.val]
verifyRefreshTokenHash(secret, hash) == hash.bcrypt = secret.val
PasswordHash(u) == [bcrypt |-> Password(u)]

-----------------------------------------------------------------------------
(* Table refresh_tokens.  A row's id is its index; replaced_by = 0 is NULL. *)

\* INSERT INTO refresh_tokens (...) VALUES ($1,$2,$3,false,NULL,...) RETURNING id
InsertTokenRow(table, sid, uid, hash) ==
  Append(table, [id |-> Len(table) + 1, session_id |-> sid, user_id |-> uid,
                 token_hash |-> hash, is_revoked |-> FALSE, replaced_by |-> 0,
                 created_at |-> now])

\* SELECT ... WHERE session_id = $1 ORDER BY created_at DESC LIMIT 1: the ids of
\* the rows that query may return (empty: no row)
LatestRowIds(table, sid) ==
  {i \in 1..Len(table) :
     /\ table[i].session_id = sid
     /\ \A j \in 1..Len(table) :
          table[j].session_id = sid => table[j].created_at <= table[i].created_at}

\* UPDATE refresh_tokens SET is_revoked = true, replaced_by = $1 WHERE id = $2
RevokeAndLinkOnly(table, newId, id) ==
  [i \in 1..Len(table) |->
     IF table[i].id = id THEN [table[i] EXCEPT !.replaced_by = newId] ELSE table[i]]
RevokeAndLink(table, newId, id) ==
  [i \in 1..Len(table) |->
     IF table[i].id = id
       THEN [table[i] EXCEPT !.is_revoked = TRUE, !.replaced_by = newId]
       ELSE table[i]]

\* UPDATE refresh_tokens SET is_revoked = true WHERE session_id = $1
RevokeRowsEverySession(table, sid) ==
  [i \in 1..Len(table) |-> [table[i] EXCEPT !.is_revoked = TRUE]]
RevokeRows(table, sid) ==
  [i \in 1..Len(table) |->
     IF table[i].session_id = sid THEN [table[i] EXCEPT !.is_revoked = TRUE] ELSE table[i]]

NoToken == <<>>
Reply(op, status, message, sid, access, refresh) ==
  [op |-> op, status |-> status, message |-> message, sessionId |-> sid,
   accessToken |-> access, refreshToken |-> refresh]
NoReply == Reply("none", 0, "", 0, NoToken, NoToken)
\* fastify.httpErrors.unauthorized(message), rendered by the error handler
Unauthorized(op, message) == Reply(op, 401, message, 0, NoToken, NoToken)

-----------------------------------------------------------------------------
(* Session manager: loginWithPassword, rotateRefreshToken, revokeSession *)

UserByName(name) == {u \in Users : Username(u) = name}

\* what loginWithPassword does with (username, password): the reply and the table
LoginResult(username, password) ==
  IF UserByName(username) = {}
    THEN [reply |-> Unauthorized("login", "Invalid username or password"), ok |-> FALSE, user |-> 0]
    ELSE LET u == CHOOSE x \in UserByName(username) : TRUE IN
         IF PasswordHash(u).bcrypt # password
           THEN [reply |-> Unauthorized("login", "Invalid username or password"), ok |-> FALSE, user |-> 0]
           ELSE [reply |-> Reply("login", 200, "", newSessionId,
                                 signAccessToken(u, newSessionId),
                                 signRefreshToken(u, newSessionId) \o <<newRefreshToken>>),
                 ok |-> TRUE, user |-> u]

Login(username, password) ==
  LET r == LoginResult(username, password) IN
  /\ r.ok => Len(refresh_tokens) < MaxRows
  /\ authReply' = r.reply
  /\ IF r.ok
       THEN /\ refresh_tokens' = InsertTokenRow(refresh_tokens, newSessionId, r.user,
                                                hashRefreshToken(newRefreshToken))
            /\ randSeq' = randSeq + 1
            /\ issued' = issued \cup {r.reply.accessToken, r.reply.refreshToken}
       ELSE UNCHANGED <<refresh_tokens, randSeq, issued>>
  /\ UNCHANGED <<now, jwtSecrets, rot, chatVars, clientVars, deviceVars>>

\* compoundRefreshToken.split("."), parts.pop(), parts.join(".")
RawRefreshSecret(compound) == compound[Len(compound)]
RefreshJwtOf(compound) == SubSeq(compound, 1, Len(compound) - 1)

\* the row the lookup of rotateRefreshToken may return: a latest row of the
\* session, or 0 when the session has none
LookupChoices(table, compound) ==
  IF Len(compound) >= 3 /\ verifyRefreshJwt(RefreshJwtOf(compound))
       /\ LatestRowIds(table, RefreshJwtOf(compound)[2].sessionId) # {}
    THEN LatestRowIds(table, RefreshJwtOf(compound)[2].sessionId)
    ELSE {0}

\* the checks with the secret compared before the row is tested for revocation
RotateCheckSecretFirst(table, compound, rowId) ==
  IF Len(compound) < 3
    THEN Unauthorized("refresh", "Malformed refresh token")
  ELSE IF ~verifyRefreshJwt(RefreshJwtOf(compound))
    THEN Reply("refresh", 500, "jwt verification failed", 0, NoToken, NoToken)
  ELSE IF RefreshJwtOf(compound)[2].tokenType # "refresh"
    THEN Unauthorized("refresh", "Invalid token type")
  ELSE IF rowId # 0 /\ ~verifyRefreshTokenHash(RawRefreshSecret(compound), table[rowId].token_hash)
    THEN Unauthorized("refresh", "Invalid refresh token")
  ELSE IF rowId = 0 \/ table[rowId].is_revoked
    THEN Unauthorized("refresh", "Refresh token revoked")
  ELSE IF table[rowId].user_id \notin Users
    THEN Unauthorized("refresh", "User no longer exists")
  ELSE Reply("refresh", 200, "", 0, NoToken, NoToken)

\* the checks of rotateRefreshToken in the order the code makes them, given the
\* row (or 0) its lookup returned: "ok" or the failure reply
RotateCheck(table, compound, rowId) ==
  IF Len(compound) < 3
    THEN Unauthorized("refresh", "Malformed refresh token")
  ELSE IF ~verifyRefreshJwt(RefreshJwtOf(compound))
    THEN Reply("refresh", 500, "jwt verification failed", 0, NoToken, NoToken)
  ELSE IF RefreshJwtOf(compound)[2].tokenType # "refresh"
    THEN Unauthorized("refresh", "Invalid token type")
  ELSE IF rowId = 0 \/ table[rowId].is_revoked
    THEN Unauthorized("refresh", "Refresh token revoked")
  ELSE IF ~verifyRefreshTokenHash(RawRefreshSecret(compound), table[rowId].token_hash)
    THEN Unauthorized("refresh", "Invalid refresh token")
  ELSE IF table[rowId].user_id \notin Users
    THEN Unauthorized("refresh", "User no longer exists")
  ELSE Reply("refresh", 200, "", 0, NoToken, NoToken)

\* the reply of a successful rotation: a fresh pair bound to nextSessionId
RotateReply(u, nextSessionId, nextRawRefresh) ==
  Reply("refresh", 200, "", nextSessionId, signAccessToken(u, nextSessionId),
        signRefreshToken(u, nextSessionId) \o <<nextRawRefresh>>)

\* POST /v1/auth/refresh handled without another request in between
Rotate(compound) ==
  \E rowId \in LookupChoices(refresh_tokens, compound) :
    LET chk == RotateCheck(refresh_tokens, compound, rowId) IN
    /\ chk.status = 200 => Len(refresh_tokens) < MaxRows
    /\ IF chk.status # 200
         THEN /\ authReply' = chk
              /\ UNCHANGED <<refresh_tokens, randSeq, issued>>
         ELSE LET u == refresh_tokens[rowId].user_id
                  inserted == InsertTokenRow(refresh_tokens, newSessionId, u,
                                             hashRefreshToken(newRefreshToken))
                  reply == RotateReply(u, newSessionId, newRefreshToken)
              IN /\ refresh_tokens' = RevokeAndLink(inserted, Len(inserted), rowId)
                 /\ randSeq' = randSeq + 1
                 /\ authReply' = reply
                 /\ issued' = issued \cup {reply.accessToken, reply.refreshToken}
    /\ UNCHANGED <<now, jwtSecrets, rot, chatVars, clientVars, deviceVars>>

\* revokeSession(sessionId)
revokeSession(table, sessionId) == RevokeRows(table, sessionId)

verifyAccessTokenLiveSession(tok) ==
  /\ JwtVerifies(tok, jwtSecrets.access)
  /\ tok[2].tokenType = "access"
  /\ \E i \in 1..Len(refresh_tokens) :
       refresh_tokens[i].session_id = tok[2].sessionId /\ ~refresh_tokens[i].is_revoked

\* fastify.verifyAccessToken (plugins/jwt.ts): request.jwtVerify() against the
\* plugin secret, then the tokenType check
verifyAccessToken(tok) ==
  /\ JwtVerifies(tok, jwtSecrets.access)
  /\ tok[2].tokenType = "access"

\* POST /v1/auth/logout with bearer token `tok` and body {sessionId?} (0: absent)
Logout(tok, requestedSession) ==
  /\ IF ~verifyAccessToken(tok)
       THEN /\ authReply' = Unauthorized("logout", "Unauthorized")
            /\ UNCHANGED refresh_tokens
       ELSE LET sessionId == IF requestedSession # 0 THEN requestedSession
                                                     ELSE tok[2].sessionId
            IN /\ refresh_tokens' = revokeSession(refresh_tokens, sessionId)
               /\ authReply' = Reply("logout", 200, "Logged out", sessionId, NoToken, NoToken)
  /\ UNCHANGED <<now, jwtSecrets, randSeq, issued, rot, chatVars, clientVars, deviceVars>>

(* rotateRefreshToken step by step: its three accesses to refresh_tokens are  *)
(* separate awaited queries, and other requests run between them.            *)

RotReqs == 1..MaxRotReq
RotIdle == [pc |-> "idle", compound |-> NoToken, rowId |-> 0, newRowId |-> 0,
            user |-> 0, sessionId |-> 0, secret |-> SecretPart(0), reply |-> NoReply]

\* parse, verify, SELECT the latest row, compare the secret
RotateRead(r, compound) ==
  /\ rot[r].pc = "idle"
  /\ \E rowId \in LookupChoices(refresh_tokens, compound) :
       LET chk == RotateCheck(refresh_tokens, compound, rowId) IN
       rot' = [rot EXCEPT ![r] =
                 IF chk.status # 200
                   THEN [RotIdle EXCEPT !.pc = "done", !.compound = compound, !.reply = chk]
                   ELSE [RotIdle EXCEPT !.pc = "insert", !.compound = compound,
                                        !.rowId = rowId,
                                        !.user = refresh_tokens[rowId].user_id]]
  /\ UNCHANGED <<now, jwtSecrets, refresh_tokens, randSeq, issued, authReply, chatVars, clientVars, deviceVars>>

\* draw the next secret and session id, INSERT the successor row
RotateInsert(r) ==
  /\ rot[r].pc = "insert"
  /\ Len(refresh_tokens) < MaxRows
  /\ refresh_tokens' = InsertTokenRow(refresh_tokens, newSessionId, rot[r].user,
                                      hashRefreshToken(newRefreshToken))
  /\ randSeq' = randSeq + 1
  /\ rot' = [rot EXCEPT ![r].pc = "update", ![r].newRowId = Len(refresh_tokens) + 1,
                         ![r].sessionId = newSessionId, ![r].secret = newRefreshToken]
  /\ UNCHANGED <<now, jwtSecrets, issued, authReply, chatVars, clientVars, deviceVars>>

\* UPDATE the prior row (revoked, replaced_by), sign the pair, reply
RotateUpdate(r) ==
  /\ rot[r].pc = "update"
  /\ LET reply == RotateReply(rot[r].user, rot[r].sessionId, rot[r].secret) IN
       /\ refresh_tokens' = RevokeAndLink(refresh_tokens, rot[r].newRowId, rot[r].rowId)
       /\ rot' = [rot EXCEPT ![r].pc = "done", ![r].reply = reply]
       /\ authReply' = reply
       /\ issued' = issued \cup {reply.accessToken, reply.refreshToken}
  /\ UNCHANGED <<now, jwtSecrets, randSeq, chatVars, clientVars, deviceVars>>

(* What a client may present: what it was issued, cuts of it, and forgeries   *)
(* made without the signing keys.                                            *)

\* the payload's kind rewritten, the signature left as it was
Tampered(tok) ==
  IF Len(tok) >= 3 /\ tok[2].kind = "payload"
    THEN [tok EXCEPT ![2].tokenType = IF @ = "access" THEN "refresh" ELSE "access"]
    ELSE tok

IssuedAccess == {t \in issued : Len(t) = 3}
IssuedRefresh == {t \in issued : Len(t) = 4}

\* as a refresh token: an issued compound token, one cut to two parts, one with
\* another secret, or an issued access token
PresentableRefresh ==
  IssuedRefresh \cup {SubSeq(t, 1, 2) : t \in IssuedRefresh}
                \cup {SubSeq(t, 1, 3) \o <<SecretPart(0)>> : t \in IssuedRefresh}
                \cup IssuedAccess

\* as an access token: an issued access token, the signed part of an issued
\* refresh token, that part with its kind rewritten, or nothing
PresentableAccess ==
  IssuedAccess \cup {SubSeq(t, 1, 3) : t \in IssuedRefresh}
               \cup {Tampered(SubSeq(t, 1, 3)) : t \in IssuedRefresh}
               \cup {NoToken}

-----------------------------------------------------------------------------
(* The websocket gateway (modules/ws/server.ts)                              *)

\* at most this many connections are ever opened (socket ids are never reused)
MaxSockets == 2
\* at most this many rows are ever inserted into message_envelopes
MaxEnvelopes == 2
\* at most this many chat:send requests are handled
MaxSends == 3
\* POST /v1/chats/:chatId/messages requests handled (each slot serves one)
MaxRestReq == 2

(* config.ws, durations scaled to ticks *)
HeartbeatTimeoutMs == 1
MaxQueueSize == 1
MaxCiphertextBytes == 2
MaxMessagesPerWindow == 2
MessageWindowMs == 1
ReplayWindowMs == 1

\* table chat_members (only read by the gateway): chats 1 and 2
chat_members == {[chat_id |-> 1, user_id |-> 1], [chat_id |-> 1, user_id |-> 2],
                 [chat_id |-> 2, user_id |-> 2]}

SocketIds == 1..MaxSockets

(* A Map / Redis hash as a function on the keys it holds *)
EmptyMap == <<>>
MapGet(m, k, default) == IF k \in DOMAIN m THEN m[k] ELSE default
MapSet(m, k, v) == [x \in DOMAIN m \cup {k} |-> IF x = k THEN v ELSE m[x]]
MapDel(m, k) == [x \in DOMAIN m \ {k} |-> m[x]]

\* an outbound event; `rcpt` are the connections it is written to
NoCipher == <<>>
Event(ev, room, rcpt) ==
  [ev |-> ev, room |-> room, rcpt |-> rcpt, code |-> "", chatId |-> 0,
   clientMessageId |-> "", messageId |-> 0, duplicate |-> FALSE, userId |-> 0,
   nonce |-> "", ciphertext |-> NoCipher, ids |-> {}, state |-> ""]

RoomOfChat(chatId) == "chat:" \o ToString(chatId)
RoomOfUser(userId) == "user:" \o ToString(userId)

OpenSockets(g) == {s \in SocketIds : g.sockets[s].state = "open"}
\* io.in(room).fetchSockets() / the connections io.to(room).emit reaches
SocketsInRoom(g, room) == {s \in OpenSockets(g) : room \in g.sockets[s].rooms}

Emit(g, e) == [g EXCEPT !.out = Append(@, e)]

\* emitSocketError(socket, code, message)
emitSocketErrorAndClose(g, s, code) ==
  Emit([g EXCEPT !.sockets[s].state = "closed", !.sockets[s].rooms = {}],
       [Event("socket:error", "", {s}) EXCEPT !.code = code])
emitSocketError(g, s, code) ==
  Emit(g, [Event("socket:error", "", {s}) EXCEPT !.code = code])

\* fastify.redis.hincrby(hash, field, by): the new value
Hincrby(hash, field, by) == MapGet(hash, field, 0) + by

\* the "disconnect" handler, with the socket leaving the server's registry
DisconnectHandler(g, s) ==
  LET userId == g.sockets[s].userId
      remaining == Hincrby(g.presenceConnections, userId, -1)
      g1 == [g EXCEPT !.sockets[s].state = "closed",
                      !.sockets[s].rooms = {},
                      !.lastHeartbeatBySocket = MapDel(@, s),
                      !.MESSAGE_RATE_TRACKER = MapDel(@, userId),
                      !.presenceConnections = MapSet(@, userId, remaining),
                      !.presenceLastSeen = MapSet(@, userId, now)]
  IN IF remaining <= 0
       THEN Emit([g1 EXCEPT !.presenceUsers = MapSet(@, userId, "offline")],
                 [Event("presence:changed", "", OpenSockets(g1))
                    EXCEPT !.userId = userId, !.state = "offline"])
       ELSE g1

(* The disconnect handler step by step: it awaits HINCRBY before its HSETs  *)
(* and its presence event, and other handlers run in between.              *)

\* up to the reply of HINCRBY; `closing` keeps the reply for the continuation
DisconnectHandlerBegin(g, s) ==
  LET userId == g.sockets[s].userId
      remaining == Hincrby(g.presenceConnections, userId, -1)
  IN [g EXCEPT !.sockets[s].state = "closed",
               !.sockets[s].rooms = {},
               !.lastHeartbeatBySocket = MapDel(@, s),
               !.MESSAGE_RATE_TRACKER = MapDel(@, userId),
               !.presenceConnections = MapSet(@, userId, remaining),
               !.closing = MapSet(@, s, remaining)]

\* the continuation: last_seen, and for remaining <= 0 the offline state and event
DisconnectHandlerEnd(g, s) ==
  LET userId == g.sockets[s].userId
      g1 == [g EXCEPT !.presenceLastSeen = MapSet(@, userId, now),
                      !.closing = MapDel(@, s)]
  IN IF g.closing[s] <= 0
       THEN Emit([g1 EXCEPT !.presenceUsers = MapSet(@, userId, "offline")],
                 [Event("presence:changed", "", OpenSockets(g1))
                    EXCEPT !.userId = userId, !.state = "offline"])
       ELSE g1

\* socket.conn.writeBuffer.length is read from the transport: `depth`
\* enforceBackpressure(socket): TRUE when the write may go ahead
BackpressureOk(depth) == depth <= MaxQueueSize
\* its effect when it may not: the error event, then socket.disconnect(true)
BackpressureClose(g, s) == DisconnectHandler(emitSocketError(g, s, "backpressure"), s)

(* The handshake: socket.handshake.auth.token and the authorization header.  *)
(* A raw value is a string (the sequence of its parts, after an optional     *)
(* "Bearer " scheme), undefined, or some other value that is not a string.   *)
SchemePart == Part("scheme", 0, 0, "", 0, "Bearer ")
RawString(parts) == [str |-> TRUE, s |-> parts, truthy |-> Len(parts) > 0]
NotAString == [str |-> FALSE, s |-> <<>>, truthy |-> FALSE]
NonStringValue == [str |-> FALSE, s |-> <<>>, truthy |-> TRUE]
\* the left operand of `authToken || headerToken` wins when it is truthy
Truthy(raw) == raw.truthy

\* normalizeToken(raw)
normalizeToken(raw) ==
  IF ~raw.str THEN NoToken
  ELSE IF Len(raw.s) > 0 /\ raw.s[1] = SchemePart THEN Tail(raw.s)
  ELSE raw.s

\* the io.use middleware: "ok", or the error the handshake is refused with
HandshakeCheckNoKind(h) ==
  LET accessToken == normalizeToken(IF Truthy(h.auth) THEN h.auth ELSE h.header) IN
  IF accessToken = NoToken THEN "Missing access token"
  ELSE IF ~JwtVerifies(accessToken, jwtSecrets.access) THEN "Unauthorized"
  ELSE "ok"
HandshakeCheck(h) ==
  LET accessToken == normalizeToken(IF Truthy(h.auth) THEN h.auth ELSE h.header) IN
  IF accessToken = NoToken THEN "Missing access token"
  ELSE IF ~JwtVerifies(accessToken, jwtSecrets.access) THEN "Unauthorized"
  ELSE IF accessToken[2].tokenType # "access" THEN "Invalid token type"
  ELSE "ok"
HandshakePayload(h) ==
  normalizeToken(IF Truthy(h.auth) THEN h.auth ELSE h.header)[2]

\* the "connection" handler up to the registration of the event handlers
ConnectionHandler(g, s, userId, sessionId) ==
  LET connections == Hincrby(g.presenceConnections, userId, 1)
      g1 == [g EXCEPT !.sockets[s] = [state |-> "open", userId |-> userId,
                                      sessionId |-> sessionId,
                                      rooms |-> {RoomOfUser(userId)}],
                      !.lastHeartbeatBySocket = MapSet(@, s, now),
                      !.presenceConnections = MapSet(@, userId, connections),
                      !.presenceUsers = MapSet(@, userId, "online"),
                      !.presenceLastSeen = MapSet(@, userId, now)]
  IN IF connections = 1
       THEN Emit(g1, [Event("presence:changed", "", OpenSockets(g1))
                        EXCEPT !.userId = userId, !.state = "online"])
       ELSE g1

(* The connection handler step by step.  It awaits HINCRBY and two HSETs and   *)
(* registers the socket's event handlers, "disconnect" among them, only      *)
(* after these awaits; a socket that closes before has no handler to run.    *)

\* connections the server holds: io.sockets.sockets
ConnectedSockets(g) == {s \in SocketIds : g.sockets[s].state \in {"opening", "open"}}

\* up to the reply of HINCRBY: the heartbeat entry, the user room, the counter;
\* `connecting` keeps the reply for the handler's continuation
ConnectionHandlerBegin(g, s, userId, sessionId) ==
  LET connections == Hincrby(g.presenceConnections, userId, 1) IN
  [g EXCEPT !.sockets[s] = [state |-> "opening", userId |-> userId,
                            sessionId |-> sessionId,
                            rooms |-> {RoomOfUser(userId)}],
            !.lastHeartbeatBySocket = MapSet(@, s, now),
            !.presenceConnections = MapSet(@, userId, connections),
            !.connecting = MapSet(@, s, connections)]

\* the continuation: the two HSETs, the presence event, the handlers registered
ConnectionHandlerEndAnnounceAll(g, s) ==
  Emit([g EXCEPT !.sockets[s].state = IF @ = "opening" THEN "open" ELSE @,
                 !.presenceUsers = MapSet(@, g.sockets[s].userId, "online"),
                 !.presenceLastSeen = MapSet(@, g.sockets[s].userId, now),
                 !.connecting = MapDel(@, s)],
       [Event("presence:changed", "", ConnectedSockets(g))
          EXCEPT !.userId = g.sockets[s].userId, !.state = "online"])
ConnectionHandlerEnd(g, s) ==
  LET userId == g.sockets[s].userId
      g1 == [g EXCEPT !.sockets[s].state = IF @ = "opening" THEN "open" ELSE @,
                      !.presenceUsers = MapSet(@, userId, "online"),
                      !.presenceLastSeen = MapSet(@, userId, now),
                      !.connecting = MapDel(@, s)]
  IN IF g.connecting[s] = 1
       THEN Emit(g1, [Event("presence:changed", "", ConnectedSockets(g1))
                        EXCEPT !.userId = userId, !.state = "online"])
       ELSE g1

\* socket s goes away with no "disconnect" handler registered: nothing runs
CloseUnhandled(g, s) ==
  [g EXCEPT !.sockets[s].state = "closed", !.sockets[s].rooms = {}]

\* the test of the sweep on one entry: `continue` unless the entry is older
\* than the timeout
HeartbeatExpiredAlways(t, lastHeartbeat) == TRUE
HeartbeatExpired(t, lastHeartbeat) == ~(t - lastHeartbeat <= HeartbeatTimeoutMs)

\* the heartbeatSweep callback over the entries `todo` of lastHeartbeatBySocket,
\* in the order of the map
RECURSIVE SweepSockets(_, _)
SweepSockets(g, todo) ==
  IF todo = {} THEN g
  ELSE LET s == CHOOSE x \in todo : \A y \in todo : x <= y
           notified == emitSocketError(g, s, "heartbeat_timeout")
           g1 == IF ~HeartbeatExpired(now, g.lastHeartbeatBySocket[s]) THEN g
                 ELSE IF s \notin ConnectedSockets(g)
                   THEN [g EXCEPT !.lastHeartbeatBySocket = MapDel(@, s)]
                 ELSE IF g.sockets[s].state = "open"
                   THEN DisconnectHandler(notified, s)
                 ELSE [CloseUnhandled(notified, s) EXCEPT
                         !.lastHeartbeatBySocket = MapDel(@, s)]
       IN SweepSockets(g1, todo \ {s})

NoSentAt == [kind |-> "empty", t |-> 0]
NoPayload == [chatId |-> 0, finite |-> FALSE, clientMessageId |-> "", nonce |-> "",
              ciphertext |-> NoCipher, sentAt |-> NoSentAt]
Op(op, s, userId, code) ==
  [op |-> op, sock |-> s, userId |-> userId, code |-> code, payload |-> NoPayload,
   messageId |-> 0, duplicate |-> FALSE]
NoOp == Op("none", 0, 0, "")

Fresh(g) == [g EXCEPT !.out = <<>>]
NextSocket(g) == {s \in SocketIds : g.sockets[s].state = "unused"
                                     /\ \A r \in SocketIds : r < s => g.sockets[r].state # "unused"}

\* a client opens a connection presenting handshake h
Connect(h) ==
  /\ \E s \in NextSocket(gw) :
       IF HandshakeCheck(h) # "ok"
         THEN /\ gw' = Fresh(gw)
              /\ lastOp' = Op("connect", 0, 0, HandshakeCheck(h))
         ELSE /\ gw' = ConnectionHandler(Fresh(gw), s, HandshakePayload(h).userId,
                                         HandshakePayload(h).sessionId)
              /\ lastOp' = Op("connect", s, HandshakePayload(h).userId, "ok")
  /\ UNCHANGED <<now, authVars, clientVars, deviceVars, message_envelopes, message_receipts, rest,
                 sendLog, nonceUse, sends>>

\* the client closes connection s
Disconnect(s) ==
  /\ gw.sockets[s].state = "open"
  /\ gw' = DisconnectHandler(Fresh(gw), s)
  /\ lastOp' = Op("disconnect", s, gw.sockets[s].userId, "ok")
  /\ UNCHANGED <<now, authVars, clientVars, deviceVars, message_envelopes, message_receipts, rest,
                 sendLog, nonceUse, sends>>

\* "presence:heartbeat" on connection s, the write buffer holding `depth` packets
Heartbeat(s, depth) ==
  /\ gw.sockets[s].state = "open"
  /\ LET g1 == [Fresh(gw) EXCEPT !.lastHeartbeatBySocket = MapSet(@, s, now),
                                 !.presenceLastSeen = MapSet(@, gw.sockets[s].userId, now)]
     IN IF BackpressureOk(depth)
          THEN /\ gw' = Emit(g1, Event("presence:heartbeat:ack", "", {s}))
               /\ lastOp' = Op("heartbeat", s, gw.sockets[s].userId, "ok")
          ELSE /\ gw' = BackpressureClose(g1, s)
               /\ lastOp' = Op("heartbeat", s, gw.sockets[s].userId, "backpressure")
  /\ UNCHANGED <<now, authVars, clientVars, deviceVars, message_envelopes, message_receipts, rest,
                 sendLog, nonceUse, sends>>

\* the connection handler of a new socket runs up to its first reply
ConnectBegin(h) ==
  /\ HandshakeCheck(h) = "ok"
  /\ \E s \in NextSocket(gw) :
       /\ gw' = ConnectionHandlerBegin(Fresh(gw), s, HandshakePayload(h).userId,
                                        HandshakePayload(h).sessionId)
       /\ lastOp' = Op("connect:begin", s, HandshakePayload(h).userId, "ok")
  /\ UNCHANGED <<now, authVars, clientVars, deviceVars, message_envelopes, message_receipts, rest,
                 sendLog, nonceUse, sends>>

\* the connection handler of socket s runs to its end
ConnectEnd(s) ==
  /\ s \in DOMAIN gw.connecting
  /\ gw' = ConnectionHandlerEnd(Fresh(gw), s)
  /\ lastOp' = Op("connect:end", s, gw.sockets[s].userId, "ok")
  /\ UNCHANGED <<now, authVars, clientVars, deviceVars, message_envelopes, message_receipts, rest,
                 sendLog, nonceUse, sends>>

\* the client closes connection s while its connection handler still awaits
CloseEarly(s) ==
  /\ gw.sockets[s].state = "opening"
  /\ gw' = CloseUnhandled(Fresh(gw), s)
  /\ lastOp' = Op("close:early", s, gw.sockets[s].userId, "ok")
  /\ UNCHANGED <<now, authVars, clientVars, deviceVars, message_envelopes, message_receipts, rest,
                 sendLog, nonceUse, sends>>

\* connection s closes and its disconnect handler runs up to its first reply
DisconnectBegin(s) ==
  /\ gw.sockets[s].state = "open"
  /\ gw' = DisconnectHandlerBegin(Fresh(gw), s)
  /\ lastOp' = Op("disconnect:begin", s, gw.sockets[s].userId, "ok")
  /\ UNCHANGED <<now, authVars, clientVars, deviceVars, message_envelopes, message_receipts, rest,
                 sendLog, nonceUse, sends>>

\* the disconnect handler of socket s runs to its end
DisconnectEnd(s) ==
  /\ s \in DOMAIN gw.closing
  /\ gw' = DisconnectHandlerEnd(Fresh(gw), s)
  /\ lastOp' = Op("disconnect:end", s, gw.sockets[s].userId, "ok")
  /\ UNCHANGED <<now, authVars, clientVars, deviceVars, message_envelopes, message_receipts, rest,
                 sendLog, nonceUse, sends>>

\* the setInterval callback heartbeatSweep fires
HeartbeatSweep ==
  /\ gw' = SweepSockets(Fresh(gw), DOMAIN gw.lastHeartbeatBySocket)
  /\ lastOp' = Op("sweep", 0, 0, "ok")
  /\ UNCHANGED <<now, authVars, clientVars, deviceVars, message_envelopes, message_receipts, rest,
                 sendLog, nonceUse, sends>>

\* the counter store (Redis) loses its contents: the presence hashes and the
\* replay keys are gone, the connections stay
StoreLoss ==
  /\ gw' = [Fresh(gw) EXCEPT !.presenceConnections = EmptyMap,
                             !.presenceUsers = EmptyMap,
                             !.presenceLastSeen = EmptyMap,
                             !.redisKeys = EmptyMap]
  /\ lastOp' = Op("store:loss", 0, 0, "ok")
  /\ UNCHANGED <<now, authVars, clientVars, deviceVars, message_envelopes, message_receipts, rest,
                 sendLog, nonceUse, sends>>

(* Message pipeline *)

\* isChatMember(fastify, userId, chatId)
isChatMemberOfAny(userId, chatId) == \E m \in chat_members : m.user_id = userId
isChatMember(userId, chatId) == [chat_id |-> chatId, user_id |-> userId] \in chat_members
\* chatMemberIds / SELECT cm.user_id FROM chat_members cm WHERE cm.chat_id = $1
chatMemberIds(chatId) == {m.user_id : m \in {x \in chat_members : x.chat_id = chatId}}

\* consumeMessageQuota(userId): whether the send may go on, and the tracker after
QuotaFiltered(tracker, userId) ==
  SelectSeq(MapGet(tracker, userId, <<>>), LAMBDA ts : now - ts <= MessageWindowMs)
QuotaAllows(tracker, userId) ==
  Len(QuotaFiltered(tracker, userId)) < MaxMessagesPerWindow
consumeMessageQuota(tracker, userId) ==
  IF QuotaAllows(tracker, userId)
    THEN MapSet(tracker, userId, Append(QuotaFiltered(tracker, userId), now))
    ELSE MapSet(tracker, userId, QuotaFiltered(tracker, userId))

\* a chat:send payload.  `finite` is Number.isFinite(payload.chatId); an empty
\* string or sequence is a missing field; sentAt is a date string ("iso", its
\* instant t), an unparsable string ("junk") or missing ("empty")
Payload(chatId, cmid, nonce, ciphertext, sentAt) ==
  [chatId |-> chatId, finite |-> TRUE, clientMessageId |-> cmid, nonce |-> nonce,
   ciphertext |-> ciphertext, sentAt |-> sentAt]
Iso(t) == [kind |-> "iso", t |-> t]
JunkDate == [kind |-> "junk", t |-> 0]

ShapeOk(p) ==
  /\ p.finite
  /\ p.clientMessageId # ""
  /\ p.nonce # ""
  /\ p.ciphertext # NoCipher
  /\ p.sentAt.kind # "empty"

Abs(x) == IF x < 0 THEN -x ELSE x
\* withinReplayWindow(sentAt)
withinReplayWindow(sentAt) ==
  /\ sentAt.kind = "iso"
  /\ Abs(now - sentAt.t) <= ReplayWindowMs

\* Buffer.byteLength(ciphertext, "utf8"): a ciphertext is the sequence of the
\* UTF-8 widths of its characters
RECURSIVE ByteLength(_)
ByteLength(text) == IF text = <<>> THEN 0 ELSE Head(text) + ByteLength(Tail(text))

\* the Redis key of the replay guard
replayKeyNoUser(userId, nonce) == "replay:" \o nonce
replayKey(userId, nonce) == "replay:" \o ToString(userId) \o ":" \o nonce
\* a key set with PX ttl at time t is gone once now > t + ttl
RedisLive(keys, k) == k \in DOMAIN keys /\ now <= keys[k]
\* SET key "1" NX PX ttl: whether it was set
RedisSetNxOk(keys, k) == ~RedisLive(keys, k)
RedisSetPx(keys, k, ttl) == MapSet(keys, k, now + ttl)

(* Tables message_envelopes and message_receipts.  NULL timestamps are -1.   *)
NullTs == 0 - 1
\* UNIQUE (sender_user_id, client_message_id): the rows a new row conflicts with
UniqueConflictNone(table, userId, cmid) == {}
UniqueConflict(table, userId, cmid) ==
  {i \in 1..Len(table) : table[i].sender_user_id = userId
                          /\ table[i].client_message_id = cmid}

EnvelopeRow(table, userId, chatId, p) ==
  [id |-> Len(table) + 1, chat_id |-> chatId, sender_user_id |-> userId,
   client_message_id |-> p.clientMessageId, ciphertext |-> p.ciphertext,
   nonce |-> p.nonce, sent_at_client |-> p.sentAt.t, created_at |-> now]

\* INSERT INTO message_receipts ... SELECT $1, cm.user_id, NULL, NULL FROM
\* chat_members cm WHERE cm.chat_id = $2 AND cm.user_id <> $3 ON CONFLICT DO NOTHING
InsertReceiptsAllMembers(receipts, id, chatId, userId) ==
  receipts \cup
    {[message_id |-> id, recipient_user_id |-> u, delivered_at |-> NullTs, seen_at |-> NullTs] :
       u \in chatMemberIds(chatId)}
InsertReceipts(receipts, id, chatId, userId) ==
  receipts \cup
    {[message_id |-> id, recipient_user_id |-> u, delivered_at |-> NullTs, seen_at |-> NullTs] :
       u \in {m \in chatMemberIds(chatId) \ {userId} :
                ~\E r \in receipts : r.message_id = id /\ r.recipient_user_id = m}}

\* persistEnvelope(fastify, user, payload): the tables after it and its result
persistEnvelope(envelopes, receipts, userId, p) ==
  IF UniqueConflict(envelopes, userId, p.clientMessageId) = {}
    THEN LET row == EnvelopeRow(envelopes, userId, p.chatId, p) IN
         [envelopes |-> Append(envelopes, row),
          receipts |-> InsertReceipts(receipts, row.id, p.chatId, userId),
          id |-> row.id, duplicate |-> FALSE]
    ELSE [envelopes |-> envelopes, receipts |-> receipts,
          id |-> CHOOSE i \in UniqueConflict(envelopes, userId, p.clientMessageId) : TRUE,
          duplicate |-> TRUE]

\* UPDATE message_receipts SET delivered_at = COALESCE(delivered_at, NOW())
\* WHERE message_id = $1 AND recipient_user_id = ANY($2)
DeliveredOverwrite(r) == [r EXCEPT !.delivered_at = now]
DeliveredCoalesce(r) ==
  [r EXCEPT !.delivered_at = IF @ = NullTs THEN now ELSE @]
updateDeliveredReceipts(receipts, messageId, recipientIds) ==
  {IF r.message_id = messageId /\ r.recipient_user_id \in recipientIds
     THEN DeliveredCoalesce(r) ELSE r : r \in receipts}

\* UPDATE message_receipts r SET seen_at = COALESCE(r.seen_at, NOW()) FROM
\* message_envelopes m WHERE r.message_id = m.id AND m.chat_id = $1
\* AND r.recipient_user_id = $2 AND r.message_id = ANY($3): the rows it updates
SeenRowsAnyChat(envelopes, receipts, chatId, userId, ids) ==
  {r \in receipts : r.message_id \in ids /\ r.recipient_user_id = userId}
SeenRows(envelopes, receipts, chatId, userId, ids) ==
  {r \in receipts : /\ r.message_id \in ids
                    /\ r.recipient_user_id = userId
                    /\ \E i \in 1..Len(envelopes) :
                         envelopes[i].id = r.message_id /\ envelopes[i].chat_id = chatId}
SeenCoalesce(r) == [r EXCEPT !.seen_at = IF @ = NullTs THEN now ELSE @]
updateSeenReceipts(envelopes, receipts, chatId, userId, ids) ==
  {IF r \in SeenRows(envelopes, receipts, chatId, userId, ids) THEN SeenCoalesce(r) ELSE r :
     r \in receipts}

\* "chat:join" {chatId} on connection s (chatId 0: missing or not a number)
ChatJoin(s, chatId, depth) ==
  /\ gw.sockets[s].state = "open"
  /\ LET userId == gw.sockets[s].userId
         g0 == Fresh(gw)
         joined == [g0 EXCEPT !.sockets[s].rooms = @ \cup {RoomOfChat(chatId)}]
     IN IF chatId = 0
          THEN /\ gw' = emitSocketError(g0, s, "invalid_chat")
               /\ lastOp' = Op("chat:join", s, userId, "invalid_chat")
        ELSE IF ~isChatMember(userId, chatId)
          THEN /\ gw' = emitSocketError(g0, s, "forbidden")
               /\ lastOp' = Op("chat:join", s, userId, "forbidden")
        ELSE IF ~BackpressureOk(depth)
          THEN /\ gw' = BackpressureClose(joined, s)
               /\ lastOp' = Op("chat:join", s, userId, "backpressure")
        ELSE /\ gw' = Emit(joined, [Event("chat:join:ack", "", {s}) EXCEPT !.chatId = chatId])
             /\ lastOp' = Op("chat:join", s, userId, "ok")
  /\ UNCHANGED <<now, authVars, clientVars, deviceVars, message_envelopes, message_receipts, rest,
                 sendLog, nonceUse, sends>>

\* the checks taken in another order: size and membership before the rest
SendRejectSizeFirst(tracker, keys, userId, p) ==
  IF ShapeOk(p) /\ ByteLength(p.ciphertext) > MaxCiphertextBytes THEN "payload_too_large"
  ELSE IF ShapeOk(p) /\ ~isChatMember(userId, p.chatId) THEN "forbidden"
  ELSE IF ~QuotaAllows(tracker, userId) THEN "rate_limited"
  ELSE IF ~ShapeOk(p) THEN "bad_payload"
  ELSE IF ~withinReplayWindow(p.sentAt) THEN "replay_window"
  ELSE IF ~RedisSetNxOk(keys, replayKey(userId, p.nonce)) THEN "replay_nonce"
  ELSE ""

\* the check of a chat:send that rejects it first, in the order of the handler
\* ("": none); `tracker` and `keys` are the quota map and the Redis keys before
SendReject(tracker, keys, userId, p) ==
  IF ~QuotaAllows(tracker, userId) THEN "rate_limited"
  ELSE IF ~ShapeOk(p) THEN "bad_payload"
  ELSE IF ~withinReplayWindow(p.sentAt) THEN "replay_window"
  ELSE IF ByteLength(p.ciphertext) > MaxCiphertextBytes THEN "payload_too_large"
  ELSE IF ~isChatMember(userId, p.chatId) THEN "forbidden"
  ELSE IF ~RedisSetNxOk(keys, replayKey(userId, p.nonce)) THEN "replay_nonce"
  ELSE ""

SendOp(s, userId, code, p, id, duplicate) ==
  [Op("chat:send", s, userId, code) EXCEPT !.payload = p, !.messageId = id,
                                           !.duplicate = duplicate]

\* steps 8 and 9 of a send whose envelope is stored as `st`: the gateway after
AckAndBroadcast(g, s, userId, p, st) ==
  LET room == RoomOfChat(p.chatId)
      ack == [Event("chat:ack", "", {s}) EXCEPT
                !.chatId = p.chatId, !.clientMessageId = p.clientMessageId,
                !.messageId = st.id, !.duplicate = st.duplicate]
      msg == [Event("chat:message", room, SocketsInRoom(g, room)) EXCEPT
                !.messageId = st.id, !.chatId = p.chatId, !.userId = userId,
                !.clientMessageId = p.clientMessageId, !.nonce = p.nonce,
                !.ciphertext = p.ciphertext, !.duplicate = st.duplicate]
  IN Emit(Emit(g, ack), msg)

\* uniqueRecipients: the users of the connections in the room, but the sender
OnlineRecipientsWithSender(g, userId, chatId) ==
  {g.sockets[x].userId : x \in SocketsInRoom(g, RoomOfChat(chatId))}

OnlineRecipients(g, userId, chatId) ==
  {g.sockets[x].userId : x \in SocketsInRoom(g, RoomOfChat(chatId))} \ {userId}

DeliveredReceipt(g, userId, chatId, id) ==
  [Event("chat:receipt", RoomOfChat(chatId), SocketsInRoom(g, RoomOfChat(chatId))) EXCEPT
     !.chatId = chatId, !.messageId = id, !.state = "delivered",
     !.ids = OnlineRecipients(g, userId, chatId)]

\* "chat:send" on connection s with payload p; `depth` packets are queued on the
\* connection when the handler reads it; dbFails: the store rejects the insert
ChatSend(s, p, depth, dbFails) ==
  /\ gw.sockets[s].state = "open"
  /\ sends < MaxSends
  /\ LET userId == gw.sockets[s].userId
         g0 == Fresh(gw)
         reject == SendReject(g0.MESSAGE_RATE_TRACKER, g0.redisKeys, userId, p)
         g1 == [g0 EXCEPT !.MESSAGE_RATE_TRACKER = consumeMessageQuota(@, userId)]
         g2 == [g1 EXCEPT !.redisKeys = RedisSetPx(@, replayKey(userId, p.nonce), ReplayWindowMs)]
         st == persistEnvelope(message_envelopes, message_receipts, userId, p)
         g3 == AckAndBroadcast(g2, s, userId, p, st)
         recipients == OnlineRecipients(g3, userId, p.chatId)
     IN
     /\ (reject = "" /\ ~dbFails /\ ~st.duplicate) => Len(message_envelopes) < MaxEnvelopes
     /\ sendLog' = IF reject = "rate_limited" THEN sendLog
                   ELSE [sendLog EXCEPT ![userId] =
                           Append(SelectSeq(@, LAMBDA ts : now - ts <= MessageWindowMs), now)]
     /\ IF reject # ""
          THEN /\ gw' = emitSocketError(g1, s, reject)
               /\ lastOp' = SendOp(s, userId, reject, p, 0, FALSE)
               /\ UNCHANGED <<message_envelopes, message_receipts, nonceUse>>
        ELSE IF dbFails
          THEN /\ gw' = emitSocketError(g2, s, "send_failed")
               /\ lastOp' = SendOp(s, userId, "send_failed", p, 0, FALSE)
               /\ nonceUse' = MapSet(nonceUse, <<userId, p.nonce>>, now)
               /\ UNCHANGED <<message_envelopes, message_receipts>>
        ELSE IF ~BackpressureOk(depth)
          THEN /\ gw' = BackpressureClose(g2, s)
               /\ lastOp' = SendOp(s, userId, "backpressure", p, st.id, st.duplicate)
               /\ nonceUse' = MapSet(nonceUse, <<userId, p.nonce>>, now)
               /\ message_envelopes' = st.envelopes
               /\ message_receipts' = st.receipts
        ELSE /\ gw' = IF recipients # {}
                        THEN Emit(g3, DeliveredReceipt(g3, userId, p.chatId, st.id))
                        ELSE g3
             /\ lastOp' = SendOp(s, userId, "ack", p, st.id, st.duplicate)
             /\ nonceUse' = MapSet(nonceUse, <<userId, p.nonce>>, now)
             /\ message_envelopes' = st.envelopes
             /\ message_receipts' = updateDeliveredReceipts(st.receipts, st.id, recipients)
  /\ sends' = sends + 1
  /\ UNCHANGED <<now, authVars, clientVars, deviceVars, rest>>

\* "chat:seen" {chatId, messageIds} on connection s (chatId 0: Number(chatId) is
\* not finite; ids {}: messageIds is no array or is empty)
ChatSeen(s, chatId, ids) ==
  /\ gw.sockets[s].state = "open"
  /\ LET userId == gw.sockets[s].userId
         g0 == Fresh(gw)
         seenIds == {r.message_id :
                       r \in SeenRows(message_envelopes, message_receipts, chatId, userId, ids)}
     IN IF chatId = 0 \/ ids = {}
          THEN /\ gw' = emitSocketError(g0, s, "bad_payload")
               /\ lastOp' = Op("chat:seen", s, userId, "bad_payload")
               /\ UNCHANGED message_receipts
        ELSE IF ~isChatMember(userId, chatId)
          THEN /\ gw' = emitSocketError(g0, s, "forbidden")
               /\ lastOp' = Op("chat:seen", s, userId, "forbidden")
               /\ UNCHANGED message_receipts
        ELSE /\ message_receipts' =
                  updateSeenReceipts(message_envelopes, message_receipts, chatId, userId, ids)
             /\ lastOp' = Op("chat:seen", s, userId, "ok")
             /\ gw' = IF seenIds = {} THEN g0
                      ELSE Emit(g0, [Event("chat:receipt", RoomOfChat(chatId),
                                           SocketsInRoom(g0, RoomOfChat(chatId))) EXCEPT
                                       !.chatId = chatId, !.ids = seenIds,
                                       !.state = "seen", !.userId = userId])
  /\ UNCHANGED <<now, authVars, clientVars, deviceVars, message_envelopes, rest, sendLog, nonceUse, sends>>

(* POST /v1/chats/:chatId/messages (chatRoutes), step by step: its SELECT, *)
(* its INSERT of the envelope and its INSERT of the receipts are separate   *)
(* awaited queries.                                                         *)

RestReqs == 1..MaxRestReq
\* a value of the query string: absent, a string Number() turns into n, or a
\* string Number() turns into NaN
QAbsent == [kind |-> "absent", n |-> 0]
QJunk == [kind |-> "junk", n |-> 0]
QNum(n) == [kind |-> "num", n |-> n]
RestIdle == [pc |-> "idle", route |-> "", userId |-> 0, chatId |-> 0, body |-> NoPayload,
             limit |-> QAbsent, beforeId |-> QAbsent,
             status |-> 0, messageId |-> 0, duplicate |-> FALSE, items |-> <<>>]
RestDone(req, status, id, duplicate) ==
  [req EXCEPT !.pc = "done", !.status = status, !.messageId = id, !.duplicate = duplicate]

\* the body schema: the four strings present (their minimum lengths scaled to 1)
RestSchemaOk(body) ==
  /\ body.clientMessageId # ""
  /\ body.nonce # ""
  /\ body.ciphertext # NoCipher
  /\ body.sentAt.kind # "empty"

\* validation, the verifyAccessToken preHandler, the chat id and membership
\* checks and the SELECT of an existing envelope
RestPostBegin(r, tok, chatId, body) ==
  /\ rest[r].pc = "idle"
  /\ LET req == [RestIdle EXCEPT !.chatId = chatId, !.body = body]
         userId == tok[2].userId
         existing == UniqueConflict(message_envelopes, userId, body.clientMessageId)
     IN rest' = [rest EXCEPT ![r] =
          IF ~RestSchemaOk(body) THEN RestDone(req, 400, 0, FALSE)
          ELSE IF ~verifyAccessToken(tok) THEN RestDone(req, 401, 0, FALSE)
          ELSE IF chatId <= 0 THEN RestDone([req EXCEPT !.userId = userId], 400, 0, FALSE)
          ELSE IF ~isChatMember(userId, chatId)
            THEN RestDone([req EXCEPT !.userId = userId], 403, 0, FALSE)
          ELSE IF existing # {}
            THEN RestDone([req EXCEPT !.userId = userId], 200,
                          CHOOSE i \in existing : TRUE, TRUE)
          ELSE [req EXCEPT !.userId = userId, !.pc = "insert"]]
  /\ UNCHANGED <<now, authVars, clientVars, deviceVars, gw, message_envelopes, message_receipts, lastOp,
                 sendLog, nonceUse, sends>>

\* INSERT INTO message_envelopes ... RETURNING id; a violation of the UNIQUE
\* constraint makes the query throw, which the error handler answers with 500
RestPostInsert(r) ==
  /\ rest[r].pc = "insert"
  /\ LET req == rest[r]
         conflict == UniqueConflict(message_envelopes, req.userId, req.body.clientMessageId)
         row == EnvelopeRow(message_envelopes, req.userId, req.chatId, req.body)
     IN /\ conflict = {} => Len(message_envelopes) < MaxEnvelopes
        /\ IF conflict # {}
             THEN /\ rest' = [rest EXCEPT ![r] = RestDone(req, 500, 0, FALSE)]
                  /\ UNCHANGED message_envelopes
             ELSE /\ rest' = [rest EXCEPT ![r].pc = "receipts", ![r].messageId = row.id]
                  /\ message_envelopes' = Append(message_envelopes, row)
  /\ UNCHANGED <<now, authVars, clientVars, deviceVars, gw, message_receipts, lastOp, sendLog, nonceUse, sends>>

\* INSERT INTO message_receipts ..., then reply 201
RestPostReceipts(r) ==
  /\ rest[r].pc = "receipts"
  /\ message_receipts' = InsertReceipts(message_receipts, rest[r].messageId,
                                        rest[r].chatId, rest[r].userId)
  /\ rest' = [rest EXCEPT ![r] = RestDone(@, 201, @.messageId, FALSE)]
  /\ UNCHANGED <<now, authVars, clientVars, deviceVars, gw, message_envelopes, lastOp, sendLog, nonceUse, sends>>

(* GET /v1/chats/:chatId/messages (chatRoutes): one page of a chat's envelopes. *)
(* The limits 50 and 200 of the route are scaled to DefaultPageLimit and       *)
(* MaxPageLimit.                                                               *)

DefaultPageLimit == 2
MaxPageLimit == 3

\* Number(q ?? dflt): the number and whether it is finite
NumberOr(q, dflt) ==
  IF q.kind = "absent" THEN [finite |-> TRUE, n |-> dflt]
  ELSE IF q.kind = "num" THEN [finite |-> TRUE, n |-> q.n]
  ELSE [finite |-> FALSE, n |-> 0]

MathMin(a, b) == IF a <= b THEN a ELSE b
MathMax(a, b) == IF a >= b THEN a ELSE b

\* const limit = Number.isFinite(limitRaw) ? Math.min(Math.max(limitRaw, 1), 200) : 50
PageLimit(q) ==
  LET limitRaw == NumberOr(q, DefaultPageLimit) IN
  IF limitRaw.finite THEN MathMin(MathMax(limitRaw.n, 1), MaxPageLimit) ELSE DefaultPageLimit

\* const beforeId = Number.isFinite(beforeIdRaw) && beforeIdRaw > 0 ? beforeIdRaw : null
NullId == 0
PageBeforeIdAsGiven(q) ==
  LET beforeIdRaw == NumberOr(q, 0) IN
  IF beforeIdRaw.finite THEN beforeIdRaw.n ELSE NullId
PageBeforeId(q) ==
  LET beforeIdRaw == NumberOr(q, 0) IN
  IF beforeIdRaw.finite /\ beforeIdRaw.n > 0 THEN beforeIdRaw.n ELSE NullId

\* ORDER BY me.id DESC LIMIT $3 over the rows with the ids `ids`
RECURSIVE OrderDescLimit(_, _, _)
OrderDescLimit(envelopes, ids, limit) ==
  IF ids = {} \/ limit <= 0 THEN <<>>
  ELSE LET top == CHOOSE i \in ids : \A j \in ids : j <= i IN
       <<envelopes[top]>> \o OrderDescLimit(envelopes, ids \ {top}, limit - 1)

\* SELECT ... FROM message_envelopes me WHERE me.chat_id = $1
\*   AND ($2::bigint IS NULL OR me.id < $2::bigint) ORDER BY me.id DESC LIMIT $3
SelectPage(envelopes, chatId, beforeId, limit) ==
  OrderDescLimit(envelopes,
                 {i \in 1..Len(envelopes) :
                    /\ envelopes[i].chat_id = chatId
                    /\ (beforeId = NullId \/ envelopes[i].id < beforeId)},
                 limit)

\* the route: the verifyAccessToken preHandler, the chat id and membership
\* checks, the page
RestGet(r, tok, chatId, limit, beforeId) ==
  /\ rest[r].pc = "idle"
  /\ LET req == [RestIdle EXCEPT !.route = "GET messages", !.chatId = chatId,
                                 !.limit = limit, !.beforeId = beforeId]
         userId == tok[2].userId
     IN rest' = [rest EXCEPT ![r] =
          IF ~verifyAccessToken(tok) THEN RestDone(req, 401, 0, FALSE)
          ELSE IF chatId <= 0 THEN RestDone([req EXCEPT !.userId = userId], 400, 0, FALSE)
          ELSE IF ~isChatMember(userId, chatId)
            THEN RestDone([req EXCEPT !.userId = userId], 403, 0, FALSE)
          ELSE [RestDone([req EXCEPT !.userId = userId], 200, 0, FALSE) EXCEPT
                  !.items = SelectPage(message_envelopes, chatId,
                                       PageBeforeId(beforeId), PageLimit(limit))]]
  /\ UNCHANGED <<now, authVars, clientVars, deviceVars, gw, message_envelopes, message_receipts, lastOp,
                 sendLog, nonceUse, sends>>

\* the clock advances; Redis drops the keys whose time to live has run out
Tick ==
  /\ now < MaxTime
  /\ now' = now + 1
  /\ gw' = [gw EXCEPT !.redisKeys =
              [k \in {x \in DOMAIN @ : now + 1 <= @[x]} |-> @[k]]]
  /\ nonceUse' = [k \in {x \in DOMAIN nonceUse : now + 1 <= nonceUse[x] + ReplayWindowMs}
                  |-> nonceUse[k]]
  /\ sendLog' = [u \in Users |->
                   SelectSeq(sendLog[u], LAMBDA ts : now + 1 - ts <= MessageWindowMs)]
  /\ UNCHANGED <<authVars, clientVars, deviceVars, message_envelopes, message_receipts, rest, lastOp, sends>>

InitGateway ==
  [sockets |-> [s \in SocketIds |->
                  [state |-> "unused", userId |-> 0, sessionId |-> 0, rooms |-> {}]],
   lastHeartbeatBySocket |-> EmptyMap,
   MESSAGE_RATE_TRACKER |-> EmptyMap,
   presenceConnections |-> EmptyMap,
   presenceUsers |-> EmptyMap,
   presenceLastSeen |-> EmptyMap,
   redisKeys |-> EmptyMap,
   connecting |-> EmptyMap,
   closing |-> EmptyMap,
   out |-> <<>>]

(* The chat client (frontend-next/src/app/chat/page.tsx): the message list *)
(* under sendMessage, flushOutbox and the chat:message and chat:ack         *)
(* listeners.  A client message id is a fresh nonce(), a list id is either  *)
(* a client message id or String(messageId).  The gateway is reduced to the *)
(* events one chat:send makes it send to this client.                       *)

\* messages composed on the page
MaxUiSends == 2
ClientMessageIds == {"c" \o ToString(k) : k \in 1..MaxUiSends}
\* the user of the page and another member of the active chat
CurrentUserId == 1
PeerUserId == 2
\* `stored` also numbers the one message of the peer
StoredKeys == ClientMessageIds \cup {"peer"}
NotComposed == 0 - 1
AssignedIds == {stored[m] : m \in StoredKeys} \cap (1..(MaxUiSends + 1))
NextMessageId == Cardinality(AssignedIds) + 1

UiMessage(id, senderId, pending, queued) ==
  [id |-> id, senderId |-> senderId, pending |-> pending, queued |-> queued]
ChatAckEvent(cm, id) ==
  [ev |-> "chat:ack", clientMessageId |-> cm, messageId |-> id, senderId |-> CurrentUserId]
ChatMessageEvent(id, senderId) ==
  [ev |-> "chat:message", clientMessageId |-> "", messageId |-> id, senderId |-> senderId]

\* prev.map(...) of the listeners and of flushOutbox
MapMessages(prev, f(_)) == [k \in 1..Len(prev) |-> f(prev[k])]

\* sendMessage: the optimistic entry under the client message id; the
\* chat:send is emitted when the page is online and connected, and queued in
\* the outbox otherwise
sendMessage(cm, connected) ==
  /\ stored[cm] = NotComposed
  /\ messages' = Append(messages, UiMessage(cm, CurrentUserId, TRUE, ~connected))
  /\ stored' = [stored EXCEPT ![cm] = 0]
  /\ IF connected
       THEN uplink' = uplink \cup {cm} /\ UNCHANGED outbox
       ELSE outbox' = outbox \cup {cm} /\ UNCHANGED uplink
  /\ UNCHANGED <<now, authVars, chatVars, deviceVars, wire>>

\* flushOutbox, for one queued item whose postMessage succeeds
flushOutbox(cm) ==
  /\ cm \in outbox
  /\ uplink' = uplink \cup {cm}
  /\ outbox' = outbox \ {cm}
  /\ messages' = MapMessages(messages,
                    LAMBDA m : IF m.id = cm THEN [m EXCEPT !.pending = FALSE, !.queued = FALSE]
                               ELSE m)
  /\ UNCHANGED <<now, authVars, chatVars, deviceVars, wire, stored>>

\* the gateway stores the envelope of an emitted chat:send and sends the
\* chat:ack to the connection and the chat:message to the room the client joined
GatewayChatSend(cm) ==
  /\ cm \in uplink
  /\ uplink' = uplink \ {cm}
  /\ stored' = [stored EXCEPT ![cm] = NextMessageId]
  /\ wire' = wire \cup {ChatAckEvent(cm, NextMessageId),
                         ChatMessageEvent(NextMessageId, CurrentUserId)}
  /\ UNCHANGED <<now, authVars, chatVars, deviceVars, messages, outbox>>

\* the chat:message of a message the peer sent to the room
PeerMessage ==
  /\ stored["peer"] = NotComposed
  /\ stored' = [stored EXCEPT !["peer"] = NextMessageId]
  /\ wire' = wire \cup {ChatMessageEvent(NextMessageId, PeerUserId)}
  /\ UNCHANGED <<now, authVars, chatVars, deviceVars, messages, outbox, uplink>>

\* socket.on("chat:message")
OnChatMessage(prev, e) ==
  IF \E k \in 1..Len(prev) : prev[k].id = ToString(e.messageId)
    THEN prev
    ELSE Append(prev, UiMessage(ToString(e.messageId), e.senderId, FALSE, FALSE))

\* socket.on("chat:ack") (every chat:ack the gateway sends has ok: true)
OnChatAck(prev, e) ==
  MapMessages(prev,
    LAMBDA m : IF m.id = e.clientMessageId
                 THEN [m EXCEPT !.id = ToString(e.messageId), !.pending = FALSE,
                                !.queued = FALSE]
                 ELSE m)

\* the client handles one of the events sent to it; the events of one send
\* are handled in either order
Receive(e) ==
  /\ e \in wire
  /\ wire' = wire \ {e}
  /\ messages' = IF e.ev = "chat:message" THEN OnChatMessage(messages, e)
                  ELSE OnChatAck(messages, e)
  /\ UNCHANGED <<now, authVars, chatVars, deviceVars, outbox, uplink, stored>>

(* Device key bundles (deviceKeyRoutes).  A bundle is registered with fresh  *)
(* one-time pre-keys; GET /v1/devices/keys/:userId hands out the first key  *)
(* of the user's latest bundle inside one transaction, whose SELECT ... FOR *)
(* UPDATE holds the row lock up to COMMIT.                                  *)

\* GET requests handled (each slot serves one) and bundles registered
MaxKeyReq == 2
MaxKeyUploads == 2
KeyReqs == 1..MaxKeyReq
DeviceIds == {"d1", "d2"}
\* keys.shift() ?? null
NullPreKey == 0
\* the pre-keys of the n-th registration, `len` of them
FreshPreKeys(n, len) == [k \in 1..len |-> 2 * n + k]

KeyIdle == [pc |-> "idle", userId |-> 0, rowId |-> 0, keys |-> <<>>,
            oneTimePreKey |-> NullPreKey, status |-> 0]
KeyDone(req, status) == [req EXCEPT !.pc = "done", !.status = status]

\* a transaction holds the row lock of bundle id: a statement that needs the
\* lock waits for its COMMIT
SelectNeverBlocked(id) == FALSE
SelectForUpdateBlocked(id) ==
  \E r \in KeyReqs : keyReq[r].pc \in {"selected", "updated"} /\ keyReq[r].rowId = id

\* POST /v1/devices/keys: INSERT ... ON CONFLICT (user_id, device_id) DO UPDATE
RegisterKeys(tok, deviceId, len) ==
  /\ keyUploads < MaxKeyUploads
  /\ IF ~verifyAccessToken(tok)
       THEN UNCHANGED <<device_keys, keyUploads>>
       ELSE LET userId == tok[2].userId
                existing == {i \in 1..Len(device_keys) :
                               /\ device_keys[i].user_id = userId
                               /\ device_keys[i].device_id = deviceId}
                row == [id |-> Len(device_keys) + 1, user_id |-> userId,
                        device_id |-> deviceId,
                        identity_public_key |-> keyUploads + 1,
                        signed_pre_key |-> keyUploads + 1,
                        one_time_pre_keys |-> FreshPreKeys(keyUploads, len),
                        updated_at |-> now]
            IN /\ \A i \in existing : ~SelectForUpdateBlocked(i)
               /\ device_keys' =
                    IF existing = {} THEN Append(device_keys, row)
                    ELSE [i \in 1..Len(device_keys) |->
                            IF i \in existing THEN [row EXCEPT !.id = i] ELSE device_keys[i]]
               /\ keyUploads' = keyUploads + 1
  /\ UNCHANGED <<now, authVars, chatVars, clientVars, keyReq>>

\* SELECT ... WHERE user_id = $1 ORDER BY updated_at DESC LIMIT 1: the ids of
\* the rows that query may return (empty: no row)
LatestBundleIds(table, userId) ==
  {i \in 1..Len(table) :
     /\ table[i].user_id = userId
     /\ \A j \in 1..Len(table) :
          table[j].user_id = userId => table[j].updated_at <= table[i].updated_at}

\* keys.shift() ?? null, and the keys left
ShiftKey(keys) == IF keys = <<>> THEN NullPreKey ELSE Head(keys)
ShiftRest(keys) == IF keys = <<>> THEN <<>> ELSE Tail(keys)

\* the pre-handler, the user id check, BEGIN and SELECT ... FOR UPDATE (which
\* waits while another transaction holds the row), and keys.shift()
KeysBegin(r, tok, userId) ==
  /\ keyReq[r].pc = "idle"
  /\ LET req == [KeyIdle EXCEPT !.userId = userId] IN
     IF ~verifyAccessToken(tok) THEN keyReq' = [keyReq EXCEPT ![r] = KeyDone(req, 401)]
     ELSE IF userId <= 0 THEN keyReq' = [keyReq EXCEPT ![r] = KeyDone(req, 400)]
     ELSE IF LatestBundleIds(device_keys, userId) = {}
       THEN keyReq' = [keyReq EXCEPT ![r] = KeyDone(req, 404)]
     ELSE \E id \in LatestBundleIds(device_keys, userId) :
            /\ ~SelectForUpdateBlocked(id)
            /\ keyReq' = [keyReq EXCEPT ![r] =
                 [req EXCEPT !.pc = "selected", !.rowId = id,
                             !.oneTimePreKey = ShiftKey(device_keys[id].one_time_pre_keys),
                             !.keys = ShiftRest(device_keys[id].one_time_pre_keys)]]
  /\ UNCHANGED <<now, authVars, chatVars, clientVars, device_keys, keyUploads>>

\* UPDATE device_keys SET one_time_pre_keys = $1, updated_at = NOW() WHERE id = $2
KeysUpdate(r) ==
  /\ keyReq[r].pc = "selected"
  /\ device_keys' = [device_keys EXCEPT ![keyReq[r].rowId].one_time_pre_keys = keyReq[r].keys,
                                         ![keyReq[r].rowId].updated_at = now]
  /\ keyReq' = [keyReq EXCEPT ![r].pc = "updated"]
  /\ UNCHANGED <<now, authVars, chatVars, clientVars, keyUploads>>

\* COMMIT and the reply
KeysCommit(r) ==
  /\ keyReq[r].pc = "updated"
  /\ keyReq' = [keyReq EXCEPT ![r] = KeyDone(@, 200)]
  /\ UNCHANGED <<now, authVars, chatVars, clientVars, device_keys, keyUploads>>

\* no bundle registered, no request under way
InitDeviceKeys ==
  /\ device_keys = <<>>
  /\ keyReq = [r \in KeyReqs |-> KeyIdle]
  /\ keyUploads = 0

\* the page before anything is composed (useState([]) and an empty outbox)
InitClient ==
  /\ messages = <<>>
  /\ outbox = {}
  /\ uplink = {}
  /\ wire = {}
  /\ stored = [m \in StoredKeys |-> NotComposed]

Init ==
  /\ now = 0
  /\ jwtSecrets \in {[access |-> "ka", refresh |-> k] : k \in SecretValues}
  /\ refresh_tokens = <<>>
  /\ randSeq = 0
  /\ issued = {}
  /\ authReply = NoReply
  /\ rot = [r \in RotReqs |-> RotIdle]
  /\ gw = InitGateway
  /\ message_envelopes = <<>>
  /\ message_receipts = {}
  /\ rest = [r \in RestReqs |-> RestIdle]
  /\ lastOp = NoOp
  /\ sendLog = [u \in Users |-> <<>>]
  /\ nonceUse = EmptyMap
  /\ sends = 0
  /\ InitClient
  /\ InitDeviceKeys

vars == <<now, authVars, chatVars, clientVars, deviceVars>>

NextAuth ==
  \/ \E n \in Usernames, p \in Passwords : Login(n, p)
  \/ \E c \in PresentableRefresh : Rotate(c)
  \/ \E t \in PresentableAccess, sid \in 0..MaxRows : Logout(t, sid)
  \/ Tick

SpecAuth == Init /\ [][NextAuth]_vars

\* the checks of a rotation: logins of user 1, right and wrong, rotations with
\* whatever a client can present, an access token followed by a secret part
\* among it, logouts of the caller's own session, the clock running
CheckedRefresh == PresentableRefresh \cup {t \o <<SecretPart(0)>> : t \in IssuedAccess}
NextAuthChecks ==
  \/ \E p \in Passwords : Login(Username(1), p)
  \/ Login("nobody", Password(1))
  \/ \E c \in CheckedRefresh : Rotate(c)
  \/ \E t \in IssuedAccess : Logout(t, 0)
  \/ Tick

SpecAuthChecks == Init /\ [][NextAuthChecks]_vars

NextRotateRace ==
  \/ \E u \in Users : Login(Username(u), Password(u))
  \/ \E r \in RotReqs, c \in PresentableRefresh : RotateRead(r, c)
  \/ \E r \in RotReqs : RotateInsert(r)
  \/ \E r \in RotReqs : RotateUpdate(r)

SpecRotateRace == Init /\ [][NextRotateRace]_vars

(* The message pipeline: clients holding access tokens as login issues them  *)
(* connect, join, send, mark seen and post over REST.                        *)

ClientAccessTokens == {signAccessToken(u, u) : u \in Users}
ClientHandshakes ==
  {[auth |-> RawString(t), header |-> NotAString] : t \in ClientAccessTokens}

Cmids == {"m1", "m2"}
Nonces == {"n1", "n2"}
\* well-formed payloads for chat 1, stamped with the current time: a message, the
\* message again under a new nonce, another message under the first nonce
GoodPayloads ==
  {Payload(1, mn[1], mn[2], <<1>>, Iso(now)) :
     mn \in {<<"m1", "n1">>, <<"m1", "n2">>, <<"m2", "n1">>}}
\* payloads at the edges of the checks: no payload, an unparsable date, a date
\* just outside the replay window and the dates at its two ends, a ciphertext
\* over the limit, a chat user 1 is no member of
EdgePayloads ==
  {NoPayload,
   Payload(1, "m1", "n1", <<1>>, JunkDate),
   Payload(1, "m1", "n1", <<1>>, Iso(now - ReplayWindowMs - 1)),
   Payload(1, "m1", "n1", <<1>>, Iso(now - ReplayWindowMs)),
   Payload(1, "m1", "n1", <<1>>, Iso(now + ReplayWindowMs)),
   Payload(1, "m1", "n1", <<2, 1>>, Iso(now)),
   Payload(2, "m1", "n1", <<1>>, Iso(now))}
Depths == {MaxQueueSize, MaxQueueSize + 1}

\* the message pipeline starts with both secrets configured and distinct
InitChat ==
  /\ Init
  /\ jwtSecrets.refresh # jwtSecrets.access

\* sends over connections of both users, the clock running
NextSend ==
  \/ \E h \in ClientHandshakes : Connect(h)
  \/ \E s \in SocketIds, p \in GoodPayloads, d \in Depths : ChatSend(s, p, d, FALSE)
  \/ \E s \in SocketIds, p \in EdgePayloads : ChatSend(s, p, MaxQueueSize, FALSE)
  \/ Tick

SpecSend == InitChat /\ [][NextSend]_vars

\* the quota: one payload per client message id, connections opening and closing
NextQuota ==
  \/ \E h \in ClientHandshakes : Connect(h)
  \/ \E s \in SocketIds : Disconnect(s)
  \/ \E s \in SocketIds, m \in Cmids :
       ChatSend(s, Payload(1, m, m, <<1>>, Iso(now)), MaxQueueSize, FALSE)
  \/ Tick

SpecQuota == InitChat /\ [][NextQuota]_vars

\* persistence: chat:send and the REST route racing for the same keys
NextPersist ==
  \/ \E h \in ClientHandshakes : Connect(h)
  \/ \E s \in SocketIds, m \in Cmids :
       ChatSend(s, Payload(1, m, m, <<1>>, Iso(now)), MaxQueueSize, FALSE)
  \/ \E r \in RestReqs, t \in ClientAccessTokens, m \in Cmids :
       RestPostBegin(r, t, 1, Payload(1, m, m, <<1>>, Iso(now)))
  \/ \E r \in RestReqs : RestPostInsert(r)
  \/ \E r \in RestReqs : RestPostReceipts(r)

SpecPersist == InitChat /\ [][NextPersist]_vars

\* receipts: joins, sends and seen marks, the clock running
NextReceipts ==
  \/ \E h \in ClientHandshakes : Connect(h)
  \/ \E s \in SocketIds : ChatJoin(s, 1, MaxQueueSize)
  \/ \E s \in SocketIds :
       ChatSend(s, Payload(1, "m1", "n1", <<1>>, Iso(now)), MaxQueueSize, FALSE)
  \/ \E s \in SocketIds, ids \in SUBSET (1..MaxEnvelopes) : ChatSeen(s, 1, ids)
  \/ Tick

SpecReceipts == InitChat /\ [][NextReceipts]_vars

\* presence: connection handlers running step by step, closes by the client
\* (before and after the handlers are registered), by backpressure on a
\* heartbeat and by the sweep, the clock running
NextPresence ==
  \/ \E h \in ClientHandshakes : ConnectBegin(h)
  \/ \E s \in SocketIds : ConnectEnd(s)
  \/ \E s \in SocketIds : CloseEarly(s)
  \/ \E s \in SocketIds : Disconnect(s)
  \/ \E s \in SocketIds, d \in Depths : Heartbeat(s, d)
  \/ HeartbeatSweep
  \/ Tick

SpecPresence == InitChat /\ [][NextPresence]_vars

\* the REST route next to the socket path: posts with a payload the checks of
\* chat:send pass and with payloads they turn down (a date outside the replay
\* window, a ciphertext over the limit, a chat user 1 is no member of)
NextRest ==
  \/ \E h \in ClientHandshakes : Connect(h)
  \/ \E s \in SocketIds :
       ChatSend(s, Payload(1, "m1", "n1", <<1>>, Iso(now)), MaxQueueSize, FALSE)
  \/ \E r \in RestReqs, t \in ClientAccessTokens :
       \E p \in {Payload(1, "m1", "n1", <<1>>, Iso(now)),
                 Payload(1, "m2", "n2", <<1>>, Iso(now - ReplayWindowMs - 1)),
                 Payload(1, "m2", "n2", <<2, 1>>, Iso(now)),
                 Payload(2, "m2", "n2", <<1>>, Iso(now))} :
         RestPostBegin(r, t, p.chatId, p)
  \/ \E r \in RestReqs : RestPostInsert(r)
  \/ \E r \in RestReqs : RestPostReceipts(r)

SpecRest == InitChat /\ [][NextRest]_vars

\* the store after user 2 has sent one message to each chat of `chats` in turn
PageRows == 5
RECURSIVE StoredAfter(_)
StoredAfter(chats) ==
  IF chats = <<>> THEN [envelopes |-> <<>>, receipts |-> {}]
  ELSE LET before == StoredAfter(SubSeq(chats, 1, Len(chats) - 1))
           cmid == "c" \o ToString(Len(chats))
       IN persistEnvelope(before.envelopes, before.receipts, 2,
                          Payload(chats[Len(chats)], cmid, cmid, <<1>>, Iso(0)))

\* pages: a store of up to PageRows messages spread over two chats, read by
\* both users with every kind of limit and beforeId
InitPage ==
  /\ now = 0
  /\ jwtSecrets = [access |-> "ka", refresh |-> "kb"]
  /\ refresh_tokens = <<>>
  /\ randSeq = 0
  /\ issued = {}
  /\ authReply = NoReply
  /\ rot = [r \in RotReqs |-> RotIdle]
  /\ gw = InitGateway
  /\ \E n \in 0..PageRows : \E chats \in [1..n -> {1, 2}] :
       /\ message_envelopes = StoredAfter(chats).envelopes
       /\ message_receipts = StoredAfter(chats).receipts
  /\ rest = [r \in RestReqs |-> RestIdle]
  /\ lastOp = NoOp
  /\ sendLog = [u \in Users |-> <<>>]
  /\ nonceUse = EmptyMap
  /\ sends = 0
  /\ InitClient
  /\ InitDeviceKeys

PageLimits == {QAbsent, QJunk} \cup {QNum(n) : n \in (0 - 1)..(MaxPageLimit + 1)}
PageBeforeIds == {QAbsent, QJunk} \cup {QNum(n) : n \in (0 - 1)..(PageRows + 1)}

NextPage ==
  \E t \in ClientAccessTokens, c \in 0..2, l \in PageLimits, b \in PageBeforeIds :
    RestGet(1, t, c, l, b)

SpecPage == InitPage /\ [][NextPage]_vars

\* requests the handlers turn down, on the connections of user 1: joins, sends
\* and seen marks with one payload for each check, the store failing under a
\* send, the sweep and the clock running
NextErrors ==
  \/ Connect([auth |-> RawString(signAccessToken(1, 1)), header |-> NotAString])
  \/ \E s \in SocketIds, c \in {0, 2} : ChatJoin(s, c, MaxQueueSize)
  \/ \E s \in SocketIds, d \in Depths : ChatJoin(s, 1, d)
  \/ \E s \in SocketIds, d \in Depths, f \in BOOLEAN :
       ChatSend(s, Payload(1, "m1", "n1", <<1>>, Iso(now)), d, f)
  \/ \E s \in SocketIds :
       \E p \in {NoPayload,
                 Payload(1, "m1", "n1", <<1>>, Iso(now - ReplayWindowMs - 1)),
                 Payload(1, "m1", "n1", <<2, 1>>, Iso(now)),
                 Payload(2, "m1", "n1", <<1>>, Iso(now))} :
         ChatSend(s, p, MaxQueueSize, FALSE)
  \/ \E s \in SocketIds :
       \E q \in {<<0, {1}>>, <<1, {}>>, <<2, {1}>>, <<1, {1}>>} : ChatSeen(s, q[1], q[2])
  \/ HeartbeatSweep
  \/ Tick

SpecErrors == InitChat /\ [][NextErrors]_vars

\* presence over a store that can lose its contents: connections opening and
\* closing, heartbeats, the store wiped at any moment
NextStoreLoss ==
  \/ \E h \in ClientHandshakes : Connect(h)
  \/ \E s \in SocketIds : Disconnect(s)
  \/ \E s \in SocketIds : Heartbeat(s, MaxQueueSize)
  \/ StoreLoss
  \/ Tick

SpecStoreLoss == InitChat /\ [][NextStoreLoss]_vars

\* the order of the checks of chat:send: user 1 sends a payload that passes,
\* no payload, and payloads that fail several checks at once (date outside the
\* window, ciphertext over the limit, a chat user 1 is no member of)
CheckPayloads ==
  {Payload(1, "m1", "n1", <<1>>, Iso(now)),
   NoPayload,
   Payload(2, "m1", "n1", <<2, 1>>, Iso(now - ReplayWindowMs - 1)),
   Payload(2, "m1", "n1", <<2, 1>>, Iso(now)),
   Payload(2, "m1", "n1", <<1>>, Iso(now))}
NextChecks ==
  \/ Connect([auth |-> RawString(signAccessToken(1, 1)), header |-> NotAString])
  \/ \E s \in SocketIds : ChatJoin(s, 1, MaxQueueSize)
  \/ \E s \in SocketIds, p \in CheckPayloads : ChatSend(s, p, MaxQueueSize, FALSE)
  \/ Tick

SpecChecks == InitChat /\ [][NextChecks]_vars

\* membership: both users join, send to and mark seen in both chats; user 1 is
\* a member of chat 1 only
NextMembers ==
  \/ \E h \in ClientHandshakes : Connect(h)
  \/ \E s \in SocketIds, c \in 1..2 : ChatJoin(s, c, MaxQueueSize)
  \/ \E s \in SocketIds, c \in 1..2 :
       ChatSend(s, Payload(c, "m1", "n1", <<1>>, Iso(now)), MaxQueueSize, FALSE)
  \/ \E s \in SocketIds, c \in 1..2 : ChatSeen(s, c, {1, 2})

SpecMembers == InitChat /\ [][NextMembers]_vars

\* the same, the sweep being a setInterval callback: it fires again and again
SpecSweepLive == InitChat /\ [][NextPresence]_vars /\ WF_vars(HeartbeatSweep)

\* the handshakes that carry token t: in handshake.auth.token, in the
\* authorization header after "Bearer ", or in the header behind an auth.token
\* that is not a string
HandshakesCarrying(t) ==
  {[auth |-> RawString(t), header |-> NotAString],
   [auth |-> NotAString, header |-> RawString(<<SchemePart>> \o t)],
   [auth |-> NonStringValue, header |-> RawString(<<SchemePart>> \o t)]}

\* authentication: logins of one user, connections and an authenticated REST call
\* (logout of the token's own session) with whatever a client can present,
\* the clock running; the two secrets may be configured equal
NextHandshake ==
  \/ Login(Username(2), Password(2))
  \/ \E t \in PresentableAccess : \E h \in HandshakesCarrying(t) : Connect(h)
  \/ \E t \in PresentableAccess : Logout(t, 0)
  \/ Tick

SpecHandshake == Init /\ [][NextHandshake]_vars

-----------------------------------------------------------------------------
(* Properties of the session manager *)

RowIds == 1..Len(refresh_tokens)
RowsOfSession(sid) == {i \in RowIds : refresh_tokens[i].session_id = sid}
LiveRowsOfSession(sid) == {i \in RowsOfSession(sid) : ~refresh_tokens[i].is_revoked}
RevokedRows(table) == {i \in 1..Len(table) : table[i].is_revoked}

\* the rows superseded on the way to row id: those whose replaced_by links lead to it
RECURSIVE ChainBefore(_, _)
ChainBefore(table, id) ==
  LET prev == {i \in 1..Len(table) : table[i].replaced_by = id}
  IN prev \cup UNION {ChainBefore(table, i) : i \in prev}

\* the credential was superseded by a rotation and its signed part still verifies
Superseded(compound) ==
  /\ compound \in IssuedRefresh
  /\ verifyRefreshJwt(RefreshJwtOf(compound))
  /\ \E i \in RowsOfSession(compound[2].sessionId) : refresh_tokens[i].replaced_by # 0

\* a successful rotation adds one live row at the head of the chain and revokes
\* and links the row it supersedes, so that all rows before the head are revoked
RotationExtendsChain(compound) ==
  (authReply'.op = "refresh" /\ authReply'.status = 200 /\ now' = now /\ Rotate(compound)) =>
    LET head == Len(refresh_tokens')
        old == CHOOSE i \in RowsOfSession(compound[2].sessionId) : TRUE
    IN /\ head = Len(refresh_tokens) + 1
       /\ ~refresh_tokens'[head].is_revoked
       /\ refresh_tokens'[old].replaced_by = head
       /\ ChainBefore(refresh_tokens', head) = ChainBefore(refresh_tokens, old) \cup {old}
       /\ ChainBefore(refresh_tokens', head) \subseteq RevokedRows(refresh_tokens')
       /\ Cardinality(RevokedRows(refresh_tokens')) = Cardinality(RevokedRows(refresh_tokens)) + 1
       /\ \A i \in 1..Len(refresh_tokens) :
            i # old => refresh_tokens'[i] = refresh_tokens[i]

\* presenting a superseded credential is refused as revoked and changes nothing
ReplayRefused(compound) ==
  (authReply'.op = "refresh" /\ now' = now /\ Superseded(compound) /\ Rotate(compound)) =>
    /\ authReply' = Unauthorized("refresh", "Refresh token revoked")
    /\ refresh_tokens' = refresh_tokens
    /\ issued' = issued

C3_OneLiveRowPerSession ==
  /\ \A i \in RowIds : Cardinality(LiveRowsOfSession(refresh_tokens[i].session_id)) <= 1
  /\ (authReply.op = "login" /\ authReply.status = 200) =>
       /\ Cardinality(RowsOfSession(authReply.sessionId)) = 1
       /\ \A i \in RowsOfSession(authReply.sessionId) :
            ~refresh_tokens[i].is_revoked /\ refresh_tokens[i].replaced_by = 0

\* a login after a rotation and a logout
C3_Witness ==
  /\ authReply.op = "login" /\ authReply.status = 200
  /\ \E i \in RowIds : refresh_tokens[i].is_revoked /\ refresh_tokens[i].replaced_by # 0
  /\ \E i \in RowIds : refresh_tokens[i].is_revoked /\ refresh_tokens[i].replaced_by = 0

\* C4: of two refresh requests that present the same credential and overlap, at
\* most one succeeds.
C4_AtMostOneRotationSucceeds ==
  \A r1, r2 \in RotReqs :
    (r1 # r2 /\ rot[r1].pc = "done" /\ rot[r2].pc = "done"
       /\ rot[r1].compound = rot[r2].compound)
      => ~(rot[r1].reply.status = 200 /\ rot[r2].reply.status = 200)

-----------------------------------------------------------------------------
(* Properties of chat:send *)

\* this step handled a chat:send (lastOp' tells which, and its outcome)
SendHandled == sends' = sends + 1 /\ lastOp'.op = "chat:send"

\* the envelopes stored for the request: same sender, client message id, chat,
\* nonce, ciphertext and client timestamp
StoredAs(userId, p) ==
  {i \in 1..Len(message_envelopes) :
     /\ message_envelopes[i].sender_user_id = userId
     /\ message_envelopes[i].client_message_id = p.clientMessageId
     /\ message_envelopes[i].chat_id = p.chatId
     /\ message_envelopes[i].nonce = p.nonce
     /\ message_envelopes[i].ciphertext = p.ciphertext
     /\ message_envelopes[i].sent_at_client = p.sentAt.t}

ReceiptsOf(receipts, id) == {r \in receipts : r.message_id = id}

\* C1: a chat:send identical to one whose envelope is stored is acknowledged
\* with the stored message id and duplicate = true, and the message keeps its
\* one set of receipt rows (a send cut short by backpressure set aside).
C1_IdenticalResendAcked ==
  [][(SendHandled /\ lastOp'.code # "backpressure"
        /\ StoredAs(lastOp'.userId, lastOp'.payload) # {}) =>
       /\ lastOp'.code = "ack"
       /\ lastOp'.duplicate
       /\ lastOp'.messageId \in StoredAs(lastOp'.userId, lastOp'.payload)
       /\ \A r \in ReceiptsOf(message_receipts', lastOp'.messageId) :
            \E q \in ReceiptsOf(message_receipts, lastOp'.messageId) :
              q.recipient_user_id = r.recipient_user_id]_vars

\* C5: a sender never has more than the configured maximum of sends counted
\* within one rate-limit window, i.e. every send past the maximum is rejected
\* until the oldest counted send has left the window.
C5_QuotaHeldAcrossConnections ==
  \A u \in Users : Len(sendLog[u]) <= MaxMessagesPerWindow

RejectedBeforeNonce ==
  {"rate_limited", "bad_payload", "replay_window", "payload_too_large", "forbidden"}

\* C6: a chat:send that passes the checks before the replay guard is rejected
\* with replay_nonce, persisting nothing, when its sender used the nonce within
\* the replay window; when the sender did not (no use, an expired one, or only
\* another user's use of the nonce) it is not rejected for the nonce and its
\* envelope is stored.
C6_NonceReplayGuard ==
  [][(SendHandled /\ lastOp'.code \notin RejectedBeforeNonce) =>
       IF <<lastOp'.userId, lastOp'.payload.nonce>> \in DOMAIN nonceUse
         THEN /\ lastOp'.code = "replay_nonce"
              /\ message_envelopes' = message_envelopes
              /\ message_receipts' = message_receipts
         ELSE /\ lastOp'.code \in {"ack", "backpressure"}
              /\ \E i \in 1..Len(message_envelopes') :
                   /\ i = lastOp'.messageId
                   /\ message_envelopes'[i].sender_user_id = lastOp'.userId
                   /\ message_envelopes'[i].client_message_id
                        = lastOp'.payload.clientMessageId]_vars

\* a nonce accepted again after its flag expired, another user having used it too
C6_Witness ==
  /\ lastOp.op = "chat:send" /\ lastOp.code = "ack"
  /\ \E i \in 1..Len(message_envelopes) :
       /\ message_envelopes[i].sender_user_id = lastOp.userId
       /\ message_envelopes[i].nonce = lastOp.payload.nonce
       /\ message_envelopes[i].created_at + ReplayWindowMs < now
  /\ \E j \in 1..Len(message_envelopes) :
       /\ message_envelopes[j].sender_user_id # lastOp.userId
       /\ message_envelopes[j].nonce = lastOp.payload.nonce

-----------------------------------------------------------------------------
(* Properties of the stored envelopes and receipts *)

\* C7: no two envelopes share (sender_user_id, client_message_id), and a stored
\* envelope is never changed or removed, however chat:send and the REST route
\* interleave.
C7_EnvelopeKeyUniqueAndImmutable ==
  /\ [](\A i, j \in 1..Len(message_envelopes) :
          (/\ message_envelopes[i].sender_user_id = message_envelopes[j].sender_user_id
           /\ message_envelopes[i].client_message_id = message_envelopes[j].client_message_id)
            => i = j)
  /\ [][\A i \in 1..Len(message_envelopes) :
          /\ i <= Len(message_envelopes')
          /\ message_envelopes'[i] = message_envelopes[i]]_vars

\* a REST insert that lost the race for its key to a chat:send, and a REST
\* request answered with the stored envelope
C7_Witness ==
  /\ \E r \in RestReqs : rest[r].pc = "done" /\ rest[r].status = 500
  /\ \E r \in RestReqs : rest[r].pc = "done" /\ rest[r].status = 200 /\ rest[r].duplicate
  /\ message_envelopes # <<>>

\* C8: a receipt row is never removed, and its delivered_at and seen_at, once
\* set, keep their value through every later step.
C8_ReceiptTimestampsSetOnce ==
  [][\A r \in message_receipts :
       \E q \in message_receipts' :
         /\ q.message_id = r.message_id
         /\ q.recipient_user_id = r.recipient_user_id
         /\ r.delivered_at # NullTs => q.delivered_at = r.delivered_at
         /\ r.seen_at # NullTs => q.seen_at = r.seen_at]_vars

\* a receipt delivered and seen earlier, its message just sent again as a
\* duplicate to the recipient's joined connection
C8_Witness ==
  \E r \in message_receipts :
    /\ r.delivered_at # NullTs /\ r.delivered_at < now
    /\ r.seen_at # NullTs /\ r.seen_at < now
    /\ lastOp.op = "chat:send" /\ lastOp.code = "ack" /\ lastOp.duplicate
    /\ lastOp.messageId = r.message_id
    /\ \E k \in 1..Len(gw.out) :
         /\ gw.out[k].ev = "chat:receipt"
         /\ gw.out[k].state = "delivered"
         /\ r.recipient_user_id \in gw.out[k].ids

-----------------------------------------------------------------------------
(* Properties of the access-token checks *)

\* an access token the gateway issued, not yet expired
GenuineAccess(t) ==
  /\ t # NoToken
  /\ t \in IssuedAccess
  /\ t[2].tokenType = "access"
  /\ t[3] = SigPart(t[2], jwtSecrets.access)
  /\ now < t[2].exp

\* C10: a connection is bound to a user, and a REST call passes the
\* verifyAccessToken pre-handler, only when the token presented is a non-empty,
\* unexpired access token signed by the gateway, and the connection is bound to
\* that token's user and session; refresh tokens, their signed parts, forged
\* and empty tokens bind nothing.
C10_OnlyAccessTokensAuthenticate ==
  [][\A t \in PresentableAccess :
       /\ \A h \in HandshakesCarrying(t) :
            (lastOp'.op = "connect" /\ lastOp'.code = "ok" /\ now' = now /\ Connect(h)) =>
              /\ GenuineAccess(t)
              /\ gw'.sockets[lastOp'.sock].userId = t[2].userId
              /\ gw'.sockets[lastOp'.sock].sessionId = t[2].sessionId
       /\ (authReply'.op = "logout" /\ authReply'.status = 200 /\ now' = now
             /\ Logout(t, 0)) => GenuineAccess(t)]_vars

\* a connection bound with an access token, and the signed part of a refresh
\* token, valid under the access secret, then refused for its kind
C10_Witness ==
  /\ \E s \in SocketIds : gw.sockets[s].state = "open"
  /\ lastOp.op = "connect" /\ lastOp.code = "Invalid token type"
  /\ \E t \in IssuedRefresh : JwtVerifies(SubSeq(t, 1, 3), jwtSecrets.access)

-----------------------------------------------------------------------------
(* Properties of presence *)

PresenceCounter(g, u) == MapGet(g.presenceConnections, u, 0)
OpenConnectionsOf(g, u) == {s \in OpenSockets(g) : g.sockets[s].userId = u}
\* the presence:changed events for user u among those the last handler emitted
PresenceEvents(g, u, state) ==
  {k \in 1..Len(g.out) : /\ g.out[k].ev = "presence:changed"
                         /\ g.out[k].userId = u
                         /\ g.out[k].state = state}

\* C11: a closed connection has no heartbeat entry, and with no connection
\* handler in progress every user's presence counter equals the number of that
\* user's open connections.
C11_CounterMatchesOpenConnections ==
  gw.connecting = EmptyMap =>
    /\ \A s \in SocketIds :
         gw.sockets[s].state = "closed" => s \notin DOMAIN gw.lastHeartbeatBySocket
    /\ \A u \in Users : PresenceCounter(gw, u) = Cardinality(OpenConnectionsOf(gw, u))

\* C12: in every step of a handler, one offline event for a user is broadcast
\* when the step brings the user's counter down to 0 or below and none
\* otherwise; one online event is broadcast when the step completes a connection
\* open whose increment moved the counter from 0 to 1 and none otherwise.
C12_PresenceEventsOnEdges ==
  [][now' = now =>
       \A u \in Users :
         /\ Cardinality(PresenceEvents(gw', u, "offline")) =
              IF PresenceCounter(gw', u) < PresenceCounter(gw, u)
                   /\ PresenceCounter(gw', u) <= 0
                THEN 1 ELSE 0
         /\ Cardinality(PresenceEvents(gw', u, "online")) =
              IF \E s \in DOMAIN gw.connecting \ DOMAIN gw'.connecting :
                   gw.sockets[s].userId = u /\ gw.connecting[s] = 1
                THEN 1 ELSE 0
         /\ \A s \in DOMAIN gw'.connecting \ DOMAIN gw.connecting :
              gw'.sockets[s].userId = u =>
                (gw'.connecting[s] = 1 <=>
                   (PresenceCounter(gw, u) = 0 /\ PresenceCounter(gw', u) = 1))]_vars

\* a second connection of a user completed its open without a presence event,
\* the first having announced the user online
C12_Witness ==
  /\ lastOp.op = "connect:end"
  /\ gw.out = <<>>
  /\ Cardinality(OpenConnectionsOf(gw, lastOp.userId)) = 2
  /\ PresenceCounter(gw, lastOp.userId) = 2

(* Properties of the liveness sweep *)

\* connection s is open and its last heartbeat is older than the timeout
StaleOpen(s) ==
  /\ gw.sockets[s].state = "open"
  /\ s \in DOMAIN gw.lastHeartbeatBySocket
  /\ now - gw.lastHeartbeatBySocket[s] > HeartbeatTimeoutMs

\* an open connection that stays silent past the timeout is closed: it does
\* not stay open and stale for ever
C13_StaleEventuallySwept ==
  \A s \in SocketIds :
    StaleOpen(s) ~> (gw.sockets[s].state = "closed" \/ ~StaleOpen(s))

\* what a sweep leaves behind for the connections it finds open and stale:
\* they are closed, the counter of their user is decremented once for each,
\* and a user left with no open connection has been announced offline
C13_SweepEffects ==
  [][lastOp'.op = "sweep" /\ now' = now =>
       /\ \A s \in SocketIds : StaleOpen(s) => gw'.sockets[s].state = "closed"
       /\ \A u \in Users :
            LET swept == {s \in OpenConnectionsOf(gw, u) : StaleOpen(s)} IN
            swept # {} =>
              /\ PresenceCounter(gw', u) = PresenceCounter(gw, u) - Cardinality(swept)
              /\ OpenConnectionsOf(gw', u) = {} => PresenceEvents(gw', u, "offline") # {}]_vars

\* C13: a connection that sends no heartbeat for longer than the heartbeat
\* timeout is eventually force-disconnected by the sweep, after which the
\* presence counter of its user has been decremented and, if the user had no
\* other open connection, an offline presence event has been broadcast
C13_StaleConnectionSwept == C13_StaleEventuallySwept /\ C13_SweepEffects

\* the heartbeat-timeout notices written to connection s
TimeoutNotices(g, s) ==
  {k \in 1..Len(g.out) : /\ g.out[k].ev = "socket:error"
                          /\ g.out[k].code = "heartbeat_timeout"
                          /\ g.out[k].rcpt = {s}}

\* C14: the sweep disconnects a connection only if its last heartbeat (or its
\* open time, when it never sent one) is older than the heartbeat timeout; a
\* connection within the timeout is left as it is, entry included; a
\* connection the sweep disconnects is first sent the heartbeat-timeout
\* notice, nothing is written to it afterwards, and its entry is removed
C14_SweepOnlyStale ==
  [][lastOp'.op = "sweep" /\ now' = now =>
       \A s \in ConnectedSockets(gw) :
         LET age == now - gw.lastHeartbeatBySocket[s] IN
         /\ s \in DOMAIN gw.lastHeartbeatBySocket
         /\ age <= HeartbeatTimeoutMs =>
              /\ gw'.sockets[s] = gw.sockets[s]
              /\ s \in DOMAIN gw'.lastHeartbeatBySocket
              /\ gw'.lastHeartbeatBySocket[s] = gw.lastHeartbeatBySocket[s]
              /\ TimeoutNotices(gw', s) = {}
         /\ gw'.sockets[s].state = "closed" =>
              /\ age > HeartbeatTimeoutMs
              /\ s \notin DOMAIN gw'.lastHeartbeatBySocket
              /\ \E k \in TimeoutNotices(gw', s) :
                   \A j \in 1..Len(gw'.out) : j > k => s \notin gw'.out[j].rcpt]_vars

\* a sweep has closed a silent connection and kept one that sent a heartbeat
C14_Witness ==
  /\ lastOp.op = "sweep"
  /\ \E s, r \in SocketIds :
       /\ TimeoutNotices(gw, s) # {}
       /\ gw.sockets[s].state = "closed"
       /\ gw.sockets[r].state = "open"
       /\ r \in DOMAIN gw.lastHeartbeatBySocket
       /\ gw.lastHeartbeatBySocket[r] > 0

(* Properties of backpressure *)

\* the events the claim names: acknowledgments and room broadcasts
GuardedEvents ==
  {"chat:ack", "presence:heartbeat:ack", "chat:join:ack", "chat:message", "chat:receipt"}

\* C15: no acknowledgment, heartbeat ack, join ack or room broadcast is written
\* to a connection whose write buffer holds more than the configured maximum;
\* such a connection gets the backpressure error and is closed.  `depths` are
\* the buffer depths of all connections while the handler of a send runs
C15_NoWriteToOverloadedConnection ==
  [][\A depths \in [SocketIds -> Depths] :
       (/\ lastOp'.op = "chat:send"
        /\ now' = now
        /\ ChatSend(lastOp'.sock, lastOp'.payload, depths[lastOp'.sock], FALSE))
       => /\ \A k \in 1..Len(gw'.out) : \A r \in gw'.out[k].rcpt :
               depths[r] > MaxQueueSize => gw'.out[k].ev \notin GuardedEvents
          /\ lastOp'.code = "backpressure" =>
               /\ gw'.sockets[lastOp'.sock].state = "closed"
               /\ \E k \in 1..Len(gw'.out) :
                    /\ gw'.out[k].ev = "socket:error"
                    /\ gw'.out[k].code = "backpressure"
                    /\ gw'.out[k].rcpt = {lastOp'.sock}]_vars

(* Properties of the error path *)

\* the codes a handler turns a request down with
RejectCodes ==
  {"rate_limited", "bad_payload", "replay_window", "payload_too_large", "forbidden",
   "replay_nonce", "invalid_chat", "send_failed"}

\* C16: a chat:send, chat:join or chat:seen that is rejected, or a send that
\* fails unexpectedly after its checks (send_failed), emits one socket:error
\* to the offending connection and leaves every connection as it was: state,
\* room memberships, heartbeat entries and presence counters; the server
\* closes a connection on backpressure and on heartbeat timeout only
C16_ErrorsLeaveConnectionOpen ==
  [][now' = now =>
       /\ (lastOp'.op \in {"chat:send", "chat:join", "chat:seen"}
              /\ lastOp'.code \in RejectCodes) =>
            /\ Len(gw'.out) = 1
            /\ gw'.out[1].ev = "socket:error"
            /\ gw'.out[1].code = lastOp'.code
            /\ gw'.out[1].rcpt = {lastOp'.sock}
            /\ gw'.sockets = gw.sockets
            /\ gw.sockets[lastOp'.sock].state = "open"
            /\ gw'.lastHeartbeatBySocket = gw.lastHeartbeatBySocket
            /\ gw'.presenceConnections = gw.presenceConnections
       /\ \A s \in SocketIds :
            (gw.sockets[s].state = "open" /\ gw'.sockets[s].state # "open") =>
              \/ lastOp'.code = "backpressure" /\ lastOp'.sock = s
              \/ lastOp'.op = "sweep" /\ TimeoutNotices(gw', s) # {}]_vars

\* a send failed in the store on a connection that had joined a chat room
C16_Witness ==
  /\ lastOp.op = "chat:send"
  /\ lastOp.code = "send_failed"
  /\ gw.sockets[lastOp.sock].state = "open"
  /\ RoomOfChat(1) \in gw.sockets[lastOp.sock].rooms
  /\ lastOp.sock \in DOMAIN gw.lastHeartbeatBySocket
  /\ PresenceCounter(gw, lastOp.userId) = 2

(* Properties of credential failures *)

\* a reply that refuses a login or a rotation
Refusal(r) == r.op \in {"login", "refresh"} /\ r.status # 200

\* C17: every failing Login or Rotate returns the same outcome to the caller,
\* whichever check failed: two refusals answered one after the other carry
\* the same status and the same message
C17_UniformRefusal ==
  [][(Refusal(authReply) /\ Refusal(authReply')) =>
       /\ authReply'.status = authReply.status
       /\ authReply'.message = authReply.message]_vars

(* Properties of revokeSession *)

\* the refresh credentials issued for session sid
CredentialsOfSession(sid) == {c \in IssuedRefresh : c[2].sessionId = sid}

\* session sid has rows and all of them are revoked
SessionRevoked(sid) == RowsOfSession(sid) # {} /\ LiveRowsOfSession(sid) = {}

\* the same, no row of it superseded by a rotation: revokeSession revoked it
RevokedNotRotated(sid) ==
  SessionRevoked(sid) /\ \A i \in RowsOfSession(sid) : refresh_tokens[i].replaced_by = 0

\* what a logout that revokes session sid does to refresh_tokens: the one row
\* of the session is marked revoked and nothing else changes, and revoking
\* once more changes nothing
RevokeStep ==
  (authReply'.op = "logout" /\ authReply'.status = 200 /\ now' = now) =>
    LET sid == authReply'.sessionId IN
    /\ Cardinality(RowsOfSession(sid)) <= 1
    /\ Len(refresh_tokens') = Len(refresh_tokens)
    /\ \A i \in RowIds :
         IF refresh_tokens[i].session_id = sid
           THEN refresh_tokens'[i] = [refresh_tokens[i] EXCEPT !.is_revoked = TRUE]
           ELSE refresh_tokens'[i] = refresh_tokens[i]
    /\ revokeSession(refresh_tokens', sid) = refresh_tokens'

EnvelopeIds == 1..Len(message_envelopes)
\* the ids a page of chat N may hold: below B, or all of them
IdsBelow(N, hasBound, B) ==
  {i \in EnvelopeIds : message_envelopes[i].chat_id = N /\ (hasBound => i < B)}

\* `items` is the page of at most `atMost` of the ids `among`: rows of the
\* table, in strictly decreasing id order, the largest ids and none skipped
IsPage(items, among, atMost) ==
  /\ \A k \in 1..Len(items) :
       items[k].id \in among /\ items[k] = message_envelopes[items[k].id]
  /\ \A k \in 1..(Len(items) - 1) : items[k].id > items[k + 1].id
  /\ Len(items) = MathMin(atMost, Cardinality(among))
  /\ \A i \in among : \A k \in 1..Len(items) :
       i > items[k].id => \E j \in 1..Len(items) : items[j].id = i

PageAnswered(r) == rest[r].route = "GET messages" /\ rest[r].status = 200

\* the number of rows asked for: L clamped to 1..MaxPageLimit
Clamped(L) == IF L < 1 THEN 1 ELSE IF L > MaxPageLimit THEN MaxPageLimit ELSE L

\* C19 as stated: the page holds only envelopes of chat N with id below B (all
\* ids when B is absent), in strictly decreasing id order, the largest such
\* ids with none skipped, at most L clamped to the range of the limit
C19_AsStated ==
  \A r \in RestReqs :
    (PageAnswered(r) /\ rest[r].limit.kind = "num" /\ rest[r].beforeId.kind # "junk") =>
      IsPage(rest[r].items,
             IdsBelow(rest[r].chatId, rest[r].beforeId.kind = "num", rest[r].beforeId.n),
             Clamped(rest[r].limit.n))

\* C19: the same, where the bound B counts only when it is a positive number
\* (all ids when B is absent, not a number, zero or negative) and L is the
\* default when it is absent or not a number
C19_PageOfChat ==
  \A r \in RestReqs :
    PageAnswered(r) =>
      IsPage(rest[r].items,
             IdsBelow(rest[r].chatId,
                      rest[r].beforeId.kind = "num" /\ rest[r].beforeId.n > 0,
                      rest[r].beforeId.n),
             IF rest[r].limit.kind = "num" THEN Clamped(rest[r].limit.n)
                                          ELSE DefaultPageLimit)

\* a page cut by both the bound and the limit: rows of the chat at or above B
\* and rows below the page are left out, rows of another chat lie in between
C19_Witness ==
  \E r \in RestReqs :
    /\ PageAnswered(r)
    /\ rest[r].beforeId.kind = "num" /\ rest[r].beforeId.n > 0
    /\ rest[r].limit.kind = "num"
    /\ Len(rest[r].items) = 2
    /\ rest[r].items[1].id > rest[r].items[2].id + 1
    /\ \E i \in EnvelopeIds : message_envelopes[i].chat_id = rest[r].chatId
                                /\ i < rest[r].items[2].id
    /\ \E i \in EnvelopeIds : message_envelopes[i].chat_id = rest[r].chatId
                                /\ i >= rest[r].beforeId.n

(* Properties of the REST send *)

\* C20: POST /v1/chats/:chatId/messages accepts or rejects a send exactly when
\* chat:send would in the same state (rate limit, payload, replay window,
\* ciphertext size, membership, nonce reuse), and the envelope it stores or
\* finds is the one the socket path would store or find
C20_RestMirrorsSocket ==
  [][\A r \in RestReqs :
       (rest[r].pc = "idle" /\ rest'[r].pc # "idle" /\ rest'[r].status # 401) =>
         LET req == rest'[r]
             reject == SendReject(gw.MESSAGE_RATE_TRACKER, gw.redisKeys, req.userId, req.body)
             st == persistEnvelope(message_envelopes, message_receipts, req.userId, req.body)
         IN /\ (req.status \in {400, 403}) <=> (reject # "")
            /\ req.status = 200 => st.duplicate /\ st.id = req.messageId
            /\ req.pc = "insert" => ~st.duplicate]_vars

(* Properties of presence over a store that loses its contents *)

\* C22: the presence counter of a user is never negative; after the store
\* lost its contents the presence state follows the live connections again:
\* when no connection of the user is left the counter is not below zero, the
\* first connection of a user still broadcasts online and the close of the
\* last one still broadcasts offline
C22_CounterRebuiltAfterStoreLoss ==
  /\ [](\A u \in Users : PresenceCounter(gw, u) >= 0)
  /\ [][now' = now =>
         \A u \in Users :
           /\ (lastOp'.op = "connect" /\ lastOp'.userId = u /\ lastOp'.code = "ok"
                  /\ OpenConnectionsOf(gw, u) = {}) =>
                PresenceEvents(gw', u, "online") # {}
           /\ (lastOp'.op = "disconnect" /\ lastOp'.userId = u
                  /\ OpenConnectionsOf(gw', u) = {}) =>
                PresenceEvents(gw', u, "offline") # {}]_vars

(* Properties of the checks of chat:send *)

\* the five checks before the replay guard, by the code each rejects with
EarlyRejectCodes ==
  {"rate_limited", "bad_payload", "replay_window", "payload_too_large", "forbidden"}

\* the first of the five checks that payload p of user u fails when the window
\* of u holds `count` sends ("": none)
FirstFailing(count, u, p) ==
  IF count >= MaxMessagesPerWindow THEN "rate_limited"
  ELSE IF p = NoPayload \/ ~p.finite \/ p.clientMessageId = "" \/ p.nonce = ""
          \/ p.ciphertext = NoCipher \/ p.sentAt.kind = "empty" THEN "bad_payload"
  ELSE IF p.sentAt.kind # "iso" \/ Abs(now - p.sentAt.t) > ReplayWindowMs THEN "replay_window"
  ELSE IF ByteLength(p.ciphertext) > MaxCiphertextBytes THEN "payload_too_large"
  ELSE IF [chat_id |-> p.chatId, user_id |-> u] \notin chat_members THEN "forbidden"
  ELSE ""

\* the sends of user u still inside the window: the entries of the tracker the
\* handler would keep
WindowCount(u) ==
  Len(SelectSeq(MapGet(gw.MESSAGE_RATE_TRACKER, u, <<>>),
                LAMBDA ts : now - ts <= MessageWindowMs))

\* C23: a chat:send rejected as rate_limited, bad_payload, replay_window,
\* payload_too_large or forbidden inserts no envelope and no receipt, sets no
\* replay key and emits nothing but the error; the checks run in that order,
\* a replay key is set only for a request that passed all five, and a
\* rate_limited rejection adds no entry to the window of the sender
C23_EarlyRejectsTouchNothing ==
  [][(lastOp'.op = "chat:send" /\ now' = now) =>
       LET u == lastOp'.userId
           first == FirstFailing(WindowCount(u), u, lastOp'.payload)
       IN /\ lastOp'.code \in EarlyRejectCodes <=> first # ""
          /\ first # "" =>
               /\ lastOp'.code = first
               /\ message_envelopes' = message_envelopes
               /\ message_receipts' = message_receipts
               /\ gw'.redisKeys = gw.redisKeys
               /\ Len(gw'.out) = 1
               /\ gw'.out[1].ev = "socket:error" /\ gw'.out[1].code = first
          /\ gw'.redisKeys # gw.redisKeys => first = ""
          /\ first = "rate_limited" =>
               /\ Len(MapGet(gw'.MESSAGE_RATE_TRACKER, u, <<>>)) = WindowCount(u)
               /\ sendLog' = sendLog]_vars

\* a send outside the replay window, also too large and to a chat its sender is
\* no member of, was rejected for the window; a message is stored
C23_Witness ==
  /\ lastOp.op = "chat:send"
  /\ lastOp.code = "replay_window"
  /\ ByteLength(lastOp.payload.ciphertext) > MaxCiphertextBytes
  /\ ~isChatMember(lastOp.userId, lastOp.payload.chatId)
  /\ Len(message_envelopes) = 1

(* Properties of membership *)

Member(u, N) == [chat_id |-> N, user_id |-> u] \in chat_members

\* rooms, envelopes and seen marks belong to members only
MembersOnly ==
  /\ \A s \in SocketIds : \A N \in 1..2 :
       RoomOfChat(N) \in gw.sockets[s].rooms => Member(gw.sockets[s].userId, N)
  /\ \A i \in 1..Len(message_envelopes) :
       Member(message_envelopes[i].sender_user_id, message_envelopes[i].chat_id)
  /\ \A r \in message_receipts :
       r.seen_at # NullTs =>
         Member(r.recipient_user_id, message_envelopes[r.message_id].chat_id)

\* the request of the step is a join, send or seen of chat N by a non-member
ByNonMember(op, N) ==
  /\ lastOp'.op = op
  /\ ~Member(lastOp'.userId, N)

\* the step leaves rooms, rows and replay keys as they were and emits one
\* socket:error
RefusedWith(codes) ==
  /\ lastOp'.code \in codes
  /\ Len(gw'.out) = 1
  /\ gw'.out[1].ev = "socket:error"
  /\ gw'.out[1].code = lastOp'.code
  /\ gw'.out[1].rcpt = {lastOp'.sock}
  /\ gw'.sockets = gw.sockets
  /\ gw'.redisKeys = gw.redisKeys
  /\ message_envelopes' = message_envelopes
  /\ message_receipts' = message_receipts

\* C24 as stated: rooms, envelopes and seen marks for members only, and a
\* join, send or seen of a non-member is answered forbidden and changes nothing
C24_AsStated ==
  /\ []MembersOnly
  /\ [][\A N \in 1..2 :
          (\/ ByNonMember("chat:join", N) /\ ChatJoin(lastOp'.sock, N, MaxQueueSize)
           \/ ByNonMember("chat:send", N) /\ lastOp'.payload.chatId = N
                /\ sends' = sends + 1
           \/ ByNonMember("chat:seen", N) /\ ChatSeen(lastOp'.sock, N, {1, 2}))
          => /\ RefusedWith({"forbidden"})
             /\ gw' = [gw EXCEPT !.out = gw'.out]]_vars

\* C24: rooms, envelopes and seen marks for members only; a join, send or seen
\* of a non-member is answered with a socket:error, forbidden when no earlier
\* check of the handler rejects the request (here: the rate limit of a send),
\* and changes no room, no row and no replay key; a send that gets past the
\* rate limit still takes one entry of the quota window of its sender
C24_MembersOnly ==
  /\ []MembersOnly
  /\ [][\A N \in 1..2 :
          (\/ ByNonMember("chat:join", N) /\ ChatJoin(lastOp'.sock, N, MaxQueueSize)
           \/ ByNonMember("chat:send", N) /\ lastOp'.payload.chatId = N
                /\ sends' = sends + 1
           \/ ByNonMember("chat:seen", N) /\ ChatSeen(lastOp'.sock, N, {1, 2}))
          => /\ RefusedWith({"forbidden", "rate_limited"})
             /\ lastOp'.code = "rate_limited" <=>
                  (lastOp'.op = "chat:send" /\ WindowCount(lastOp'.userId) >= MaxMessagesPerWindow)
             /\ lastOp'.op = "chat:send" =>
                  gw'.MESSAGE_RATE_TRACKER =
                    consumeMessageQuota(gw.MESSAGE_RATE_TRACKER, lastOp'.userId)
             /\ lastOp'.op # "chat:send" => gw' = [gw EXCEPT !.out = gw'.out]]_vars

\* a non-member was refused while a member holds the room, an envelope and a
\* seen mark in the other chat
C24_Witness ==
  /\ lastOp.code = "forbidden"
  /\ lastOp.op = "chat:send"
  /\ lastOp.payload.chatId = 2
  /\ \E s \in SocketIds : RoomOfChat(2) \in gw.sockets[s].rooms
  /\ \E i \in 1..Len(message_envelopes) : message_envelopes[i].chat_id = 2
  /\ \E r \in message_receipts : r.seen_at # NullTs

(* Properties of failing logins and rotations *)

\* the outcome of the checks of a rotation presenting c, stated on the token
\* and the table: the failure ("" when every check passes)
RotateOutcome(c) ==
  IF Len(c) < 3 THEN "Malformed refresh token"
  ELSE LET jwt == SubSeq(c, 1, Len(c) - 1) IN
       IF ~(Len(jwt) = 3 /\ jwt[1] = HeaderPart /\ jwt[2].kind = "payload"
             /\ jwt[3] = SigPart(jwt[2], jwtSecrets.refresh) /\ now < jwt[2].exp)
         THEN "signature"
       ELSE IF jwt[2].tokenType # "refresh" THEN "Invalid token type"
       ELSE IF \A i \in RowsOfSession(jwt[2].sessionId) : refresh_tokens[i].is_revoked
         THEN "Refresh token revoked"
       ELSE IF \A i \in LiveRowsOfSession(jwt[2].sessionId) :
                 refresh_tokens[i].token_hash # hashRefreshToken(c[Len(c)])
         THEN "Invalid refresh token"
       ELSE ""

\* C25: a Login or Rotate that fails inserts no refresh-credential row, revokes
\* none and issues no credentials; Rotate applies its checks in the order
\* malformed token, signature and kind, revoked or missing row, secret
\* mismatch, so a revoked row is reported as revoked even when the presented
\* secret is wrong as well
C25_FailuresChangeNothing ==
  /\ [][(Refusal(authReply') /\ now' = now /\ authReply' # authReply) =>
          /\ refresh_tokens' = refresh_tokens
          /\ issued' = issued
          /\ randSeq' = randSeq
          /\ authReply'.accessToken = NoToken /\ authReply'.refreshToken = NoToken]_vars
  /\ [][\A c \in CheckedRefresh :
          (authReply'.op = "refresh" /\ now' = now /\ Rotate(c)) =>
            LET outcome == RotateOutcome(c) IN
            /\ outcome = "" <=> authReply'.status = 200
            /\ outcome = "signature" => authReply'.status # 200
            /\ outcome \notin {"", "signature"} =>
                 authReply' = Unauthorized("refresh", outcome)]_vars

\* an access token followed by a secret part was refused for its kind, after a
\* login, a rotation and a logout
C25_Witness ==
  /\ authReply = Unauthorized("refresh", "Invalid token type")
  /\ \E i \in RowIds : refresh_tokens[i].is_revoked /\ refresh_tokens[i].replaced_by # 0
  /\ \E i \in RowIds : refresh_tokens[i].is_revoked /\ refresh_tokens[i].replaced_by = 0

(* Properties of receipt creation *)

\* the envelope with id i is stored with its receipts: no REST request stands
\* between its two INSERTs
ReceiptsInserted(i) == \A r \in RestReqs : ~(rest[r].pc = "receipts" /\ rest[r].messageId = i)

JoinedOthers(u, c) ==
  {gw.sockets[x].userId :
     x \in {y \in SocketIds : /\ gw.sockets[y].state = "open"
                              /\ RoomOfChat(c) \in gw.sockets[y].rooms}} \ {u}

\* the row of (id, u) as it stood before the step; a row the step inserted
\* stands with both timestamps null
RowBefore(id, u) ==
  IF \E q \in message_receipts : q.message_id = id /\ q.recipient_user_id = u
    THEN CHOOSE q \in message_receipts : q.message_id = id /\ q.recipient_user_id = u
    ELSE [message_id |-> id, recipient_user_id |-> u, delivered_at |-> NullTs, seen_at |-> NullTs]

DeliveredNotices ==
  {k \in 1..Len(gw'.out) : gw'.out[k].ev = "chat:receipt" /\ gw'.out[k].state = "delivered"}

SeenIdSets == (SUBSET (1..MaxEnvelopes)) \ {{}}
NextSeen ==
  \/ \E h \in ClientHandshakes : Connect(h)
  \/ \E s \in SocketIds, c \in 1..2 : ChatJoin(s, c, MaxQueueSize)
  \/ \E s \in SocketIds, c \in 1..2 :
       ChatSend(s, Payload(c, "m1", "n1", <<1>>, Iso(now)), MaxQueueSize, FALSE)
  \/ \E s \in SocketIds, c \in 1..2, ids \in SeenIdSets : ChatSeen(s, c, ids)

SpecSeen == InitChat /\ [][NextSeen]_vars

\* the receipts a seen mark of user u for chat c naming ids applies to
SeenTargets(u, c, ids) ==
  {r \in message_receipts :
     /\ r.message_id \in ids
     /\ r.recipient_user_id = u
     /\ r.message_id \in 1..Len(message_envelopes)
     /\ message_envelopes[r.message_id].chat_id = c}

SeenNotices ==
  {k \in 1..Len(gw'.out) : gw'.out[k].ev = "chat:receipt" /\ gw'.out[k].state = "seen"}

\* C28: chat:seen from user U for chat N sets seen-at (where it is still null)
\* only on receipts of U for envelopes of chat N among the given ids; one seen
\* chat:receipt listing exactly the ids of those rows goes to the room, and no
\* receipt event at all when there is no such row
C28_SeenOnlyOwnRowsOfChat ==
  [][\A s \in SocketIds, c \in 1..2, ids \in SUBSET (1..MaxEnvelopes) :
       (/\ now' = now
        /\ lastOp'.op = "chat:seen" /\ lastOp'.sock = s
        /\ ChatSeen(s, c, ids))
       => LET u == gw.sockets[s].userId
              T == SeenTargets(u, c, ids)
          IN /\ message_receipts' =
                  {IF r \in T THEN [r EXCEPT !.seen_at = IF @ = NullTs THEN now ELSE @] ELSE r :
                     r \in message_receipts}
             /\ T # {} => /\ Cardinality(SeenNotices) = 1
                          /\ \A k \in SeenNotices :
                               /\ gw'.out[k].ids = {r.message_id : r \in T}
                               /\ gw'.out[k].userId = u
                               /\ gw'.out[k].chatId = c
                               /\ gw'.out[k].room = RoomOfChat(c)
             /\ T = {} => \A k \in 1..Len(gw'.out) : gw'.out[k].ev # "chat:receipt"]_vars

\* user 2 marked seen the message of user 1 in chat 1 while the other stored
\* message is user 2's own in chat 2: the notice lists the one id, and the
\* receipt of user 2 carries the mark
C28_Witness ==
  /\ lastOp.op = "chat:seen" /\ lastOp.code = "ok" /\ lastOp.userId = 2
  /\ Len(message_envelopes) = 2
  /\ \E i \in 1..2 : message_envelopes[i].chat_id = 2
  /\ \E k \in 1..Len(gw.out) :
       /\ gw.out[k].ev = "chat:receipt" /\ gw.out[k].state = "seen"
       /\ Cardinality(gw.out[k].ids) = 1
       /\ \A i \in gw.out[k].ids : message_envelopes[i].chat_id = 1
  /\ \E r \in message_receipts : r.recipient_user_id = 2 /\ r.seen_at = now

(* The chat client *)

\* the page composing messages online and offline, the outbox flushed, the
\* gateway answering, the peer writing, events arriving in any order
NextClient ==
  \/ \E cm \in ClientMessageIds, connected \in BOOLEAN : sendMessage(cm, connected)
  \/ \E cm \in ClientMessageIds : flushOutbox(cm)
  \/ \E cm \in ClientMessageIds : GatewayChatSend(cm)
  \/ PeerMessage
  \/ \E e \in wire : Receive(e)

SpecClient == InitChat /\ [][NextClient]_vars

\* the entries of the list under id
EntriesOf(id) == {k \in 1..Len(messages) : messages[k].id = id}
\* the chat:ack and the chat:message of the send of cm have both been handled
BothHandled(cm) ==
  /\ stored[cm] > 0
  /\ \A e \in wire : e.messageId # stored[cm]

\* C29: once the chat:ack and the chat:message copy of the client's own
\* message have both been handled, in whichever order, the list holds exactly
\* one entry for the message, under the message id the gateway assigned
C29_OneEntryPerOwnMessage ==
  \A cm \in ClientMessageIds :
    BothHandled(cm) =>
      /\ Cardinality(EntriesOf(ToString(stored[cm]))) = 1
      /\ EntriesOf(cm) = {}

(* Access tokens across logout and rotation *)

\* logins, rotations and logouts of one user, with connections and REST calls
\* presenting every access token issued so far
NextAccess ==
  \/ Login(Username(2), Password(2))
  \/ \E c \in IssuedRefresh : Rotate(c)
  \/ \E t \in IssuedAccess : Logout(t, 0)
  \/ \E t \in IssuedAccess : Connect([auth |-> RawString(t), header |-> NotAString])
  \/ \E r \in RestReqs, t \in IssuedAccess : RestGet(r, t, 1, QAbsent, QAbsent)
  \/ Tick

SpecAccess == InitChat /\ [][NextAccess]_vars

\* C30: revoking or rotating a session changes neither which access tokens
\* verify nor the open connections; an issued access token that has not
\* expired opens a connection bound to its user and session and passes the
\* verifyAccessToken pre-handler of a REST call, whatever became of its session
C30_AccessSurvivesRevocation ==
  [][/\ now' = now =>
          \A t \in IssuedAccess : verifyAccessToken(t)' = verifyAccessToken(t)
     /\ refresh_tokens' # refresh_tokens => gw'.sockets = gw.sockets
     /\ \A t \in IssuedAccess :
          now < t[2].exp =>
            /\ (lastOp'.op = "connect" /\ now' = now
                  /\ Connect([auth |-> RawString(t), header |-> NotAString]))
                => /\ lastOp'.code = "ok"
                   /\ gw'.sockets[lastOp'.sock] =
                        [state |-> "open", userId |-> t[2].userId,
                         sessionId |-> t[2].sessionId,
                         rooms |-> {RoomOfUser(t[2].userId)}]
            /\ (authReply'.op = "logout" /\ now' = now /\ Logout(t, 0))
                => authReply'.status = 200
            /\ \A r \in RestReqs :
                 (rest'[r].pc = "done" /\ rest[r].pc = "idle"
                    /\ RestGet(r, t, 1, QAbsent, QAbsent))
                 => rest'[r].status = 200]_vars

\* connection 1 is bound to a session that a rotation put in place of the
\* session of connection 2: connection 2 was opened with the access token of
\* the rotated session; the newer session is logged out since, and both
\* connections are open
C30_Witness ==
  /\ gw.sockets[1].state = "open" /\ gw.sockets[2].state = "open"
  /\ \E i, j \in RowIds :
       /\ refresh_tokens[i].session_id = gw.sockets[2].sessionId
       /\ refresh_tokens[j].session_id = gw.sockets[1].sessionId
       /\ refresh_tokens[i].replaced_by = j
  /\ SessionRevoked(gw.sockets[1].sessionId)
  /\ SessionRevoked(gw.sockets[2].sessionId)
  /\ authReply.op = "logout" /\ authReply.status = 200

(* Properties of what a send reports *)

\* event e, carrying a message id, agrees with the stored envelope of that id
ReportsStored(e, envelopes) ==
  LET row == envelopes[e.messageId] IN
  /\ e.chatId = row.chat_id
  /\ e.ev = "chat:message" =>
       /\ e.userId = row.sender_user_id
       /\ e.nonce = row.nonce
       /\ e.ciphertext = row.ciphertext
       /\ e.room = RoomOfChat(row.chat_id)

\* C31: every chat:ack and chat:message of an acknowledged send carries the
\* chat id (and the broadcast also the sender, nonce and ciphertext) of the
\* stored envelope whose id it names, and the broadcast goes to the room of
\* that envelope's chat, duplicates included
C31_EventsReportStoredEnvelope ==
  [][(SendHandled /\ lastOp'.code = "ack") =>
       \A k \in 1..Len(gw'.out) :
         gw'.out[k].ev \in {"chat:ack", "chat:message"} =>
           /\ gw'.out[k].messageId \in 1..Len(message_envelopes')
           /\ ReportsStored(gw'.out[k], message_envelopes')]_vars

(* Properties of logout *)

\* the rows a step revokes
NewlyRevoked == {i \in RowIds : refresh_tokens'[i].is_revoked /\ ~refresh_tokens[i].is_revoked}

\* C32: a logout revokes only rows of the authenticated caller, whatever
\* session id the request body names
C32_LogoutRevokesOwnRowsOnly ==
  [][\A t \in PresentableAccess, sid \in 0..MaxRows :
       (authReply'.op = "logout" /\ now' = now /\ Logout(t, sid))
       => \A i \in NewlyRevoked : refresh_tokens[i].user_id = t[2].userId]_vars

(* Presence with the connection and disconnect handlers interleaved *)

\* connections opening and closing, both handlers step by step, the clock running
NextPresenceRace ==
  \/ \E h \in ClientHandshakes : ConnectBegin(h)
  \/ \E s \in SocketIds : ConnectEnd(s)
  \/ \E s \in SocketIds : DisconnectBegin(s)
  \/ \E s \in SocketIds : DisconnectEnd(s)
  \/ Tick

SpecPresenceRace == InitChat /\ [][NextPresenceRace]_vars

\* no connection or disconnect handler is in progress
HandlersFinished(g) == g.connecting = EmptyMap /\ g.closing = EmptyMap

\* C33: with every connection and disconnect handler finished, the stored
\* presence state of a user is online exactly when the user's counter is above
\* zero, and so is the presence event of the step that finished the last handler
C33_PresenceAgreesWithCounter ==
  /\ [](HandlersFinished(gw) =>
          \A u \in DOMAIN gw.presenceUsers :
            gw.presenceUsers[u] = "online" <=> PresenceCounter(gw, u) > 0)
  /\ [][HandlersFinished(gw') =>
          \A u \in Users :
            /\ PresenceEvents(gw', u, "online") # {} => PresenceCounter(gw', u) > 0
            /\ PresenceEvents(gw', u, "offline") # {} => PresenceCounter(gw', u) <= 0]_vars

(* Properties of the quota across closes *)

\* C34: the close of a connection leaves the rate-limit window of every user
\* as it was, the user of the connection included
C34_CloseKeepsRateWindow ==
  [][\A s \in SocketIds :
       (lastOp'.op = "disconnect" /\ lastOp'.sock = s /\ now' = now /\ Disconnect(s))
       => gw'.MESSAGE_RATE_TRACKER = gw.MESSAGE_RATE_TRACKER]_vars

(* Properties of retries *)

\* C35: a chat:send that failed with send_failed after its nonce was recorded
\* can be sent again unchanged within the replay window: the retry is not
\* turned down for its nonce
C35_FailedSendCanBeRetried ==
  [][(/\ lastOp.op = "chat:send" /\ lastOp.code = "send_failed"
      /\ <<lastOp.userId, lastOp.payload.nonce>> \in DOMAIN nonceUse
      /\ SendHandled
      /\ now' = now
      /\ lastOp'.userId = lastOp.userId
      /\ lastOp'.payload = lastOp.payload)
     => lastOp'.code # "replay_nonce"]_vars

(* Properties of concurrent sends of one message *)

\* C36: every REST POST of a message by a member completes without error and
\* reports the id of the envelope stored under its sender and client message
\* id, also when a chat:send or another POST of the same message runs between
\* its queries; of the POSTs of one message at most one reports duplicate = false
C36_ConcurrentSendsAgree ==
  /\ \A r \in RestReqs :
       rest[r].pc = "done" =>
         /\ rest[r].status \in {200, 201}
         /\ rest[r].messageId \in 1..Len(message_envelopes)
         /\ message_envelopes[rest[r].messageId].sender_user_id = rest[r].userId
         /\ message_envelopes[rest[r].messageId].client_message_id
              = rest[r].body.clientMessageId
  /\ \A r1, r2 \in RestReqs :
       (/\ rest[r1].pc = "done" /\ rest[r2].pc = "done"
        /\ rest[r1].userId = rest[r2].userId
        /\ rest[r1].body.clientMessageId = rest[r2].body.clientMessageId
        /\ ~rest[r1].duplicate /\ ~rest[r2].duplicate)
       => r1 = r2

(* Properties of repeated seen marks *)

\* C37: a chat:seen that names only receipts of its user that are already
\* seen broadcasts no seen chat:receipt
C37_SeenAnnouncedOnce ==
  [][\A s \in SocketIds, c \in 1..2, ids \in SUBSET (1..MaxEnvelopes) :
       (/\ now' = now
        /\ lastOp'.op = "chat:seen" /\ lastOp'.sock = s
        /\ ChatSeen(s, c, ids)
        /\ \A r \in SeenTargets(gw.sockets[s].userId, c, ids) : r.seen_at # NullTs)
       => SeenNotices = {}]_vars

(* Device key bundles *)

\* bundles of both users registered and registered again, their keys fetched
\* by overlapping requests, the clock running
NextKeys ==
  \/ \E t \in ClientAccessTokens \cup {NoToken}, d \in DeviceIds, len \in 1..2 :
       RegisterKeys(t, d, len)
  \/ \E r \in KeyReqs, t \in {signAccessToken(1, 1), NoToken}, u \in 0..2 : KeysBegin(r, t, u)
  \/ \E r \in KeyReqs : KeysUpdate(r)
  \/ \E r \in KeyReqs : KeysCommit(r)
  \/ Tick

SpecKeys == InitChat /\ [][NextKeys]_vars

\* the bundle of a row: everything but its list of one-time pre-keys and updated_at
BundleOf(row) == [row EXCEPT !.one_time_pre_keys = <<>>, !.updated_at = 0]
\* the pre-keys stored in some bundle
StoredPreKeys ==
  UNION {{device_keys[i].one_time_pre_keys[k] : k \in 1..Len(device_keys[i].one_time_pre_keys)} :
           i \in 1..Len(device_keys)}

C39_SeenImpliesDelivered ==
  \A r \in message_receipts : r.seen_at # NullTs => r.delivered_at # NullTs

====
